---- MODULE Spec2Model ----
(***************************************************************************)
(* Agent Work Manager: the task store operations of the AWM class, the    *)
(* overdue evaluator and the daemon's two-tier wake escalation.            *)
(*                                                                         *)
(* Text values (duration literals) are sequences of one-character strings, *)
(* so that the duration parser is computed from the characters.  An absent *)
(* (undefined) text is the empty sequence: every place of the code that    *)
(* reads a cadence, statusInterval or idleThreshold tests its truthiness,  *)
(* where undefined and "" behave alike.  In the same way an absent         *)
(* timestamp is 0 (the code reads `x || 0`), an absent task id and an      *)
(* absent default mode are "".  Display-only fields (name, instruction,    *)
(* helpers, metadata, lastOutcome, message texts) are not state the        *)
(* scheduling reads and are left out.                                      *)
(***************************************************************************)
EXTENDS Integers, Sequences, FiniteSets, TLC

VARIABLES
    clock,      \* index of the current instant on the Timeline (Date.now())
    tasks,      \* AWMState.tasks: task id -> Task
    agents,     \* AWMState.agents: agent id -> AgentConfig
    history,    \* AWMState.history: sequence of StatusUpdate
    wakeState,  \* the daemon's persisted WakeState file
    ops,        \* number of store commands issued so far (bounded by MaxOps)
    tick,       \* observation of the daemon pass that just ran (NoTick otherwise)
    notified,   \* per agent, the instants of its last two delivered notifications
                \* and the channel calls of the pass that delivered the last one
    reply,      \* what the query that just ran returned (NoReply otherwise)
    storage,    \* the Storage objects of the process, their files, DEFAULT_STATE
    config      \* the Partial<AWMConfig> the AWM was constructed with

vars == <<clock, tasks, agents, history, wakeState, ops, tick, notified, reply,
          storage, config>>

----------------------------------------------------------------------------
(* Bounds of the model *)

MaxTasks == 2
MaxOps == 3
MaxClock == 6

(* Program constants *)

MIN_WAKE_INTERVAL_MS == 300000
ESCALATION_GRACE_MS == 180000
DefaultOverdueThreshold == 2
HistoryCap == 1000

(* Result of a strict parse that throws, and of a safe parse that returns
   undefined. *)
InvalidDuration == -1
Undefined == -2

Agents == {"frank", "nova"}
TaskIdSeq == <<"t1", "t2", "t3", "t4">>
NoTask == ""
NoMode == ""
NoText == <<>>

(* The instants at which commands and daemon passes happen, in ms.  The
   first instant is late enough that, as with a real Date.now(), an agent
   that never checked in is past every idle threshold and an agent that was
   never woken is past the cooldown.  Relative to the second instant W the
   later ones are W + 60,000, W + 61,000, W + 180,001 and W + 300,000; past
   the end of the list the instants go on in steps of the wake interval. *)
Timeline ==
    << 2000000, 2180000, 2240000, 2241000, 2360001, 2480000 >>

TimeAt(i) ==
    IF i <= Len(Timeline)
    THEN Timeline[i]
    ELSE Timeline[Len(Timeline)] + (i - Len(Timeline)) * MIN_WAKE_INTERVAL_MS

Now == TimeAt(clock)

Max(a, b) == IF a >= b THEN a ELSE b

----------------------------------------------------------------------------
(* Duration codec *)

Digits == {"0", "1", "2", "3", "4", "5", "6", "7", "8", "9"}
Units == {"s", "m", "h", "d"}

DigitVal(c) ==
    CASE c = "0" -> 0 [] c = "1" -> 1 [] c = "2" -> 2 [] c = "3" -> 3
      [] c = "4" -> 4 [] c = "5" -> 5 [] c = "6" -> 6 [] c = "7" -> 7
      [] c = "8" -> 8 [] c = "9" -> 9

RECURSIVE parseInt(_)
parseInt(s) ==
    IF s = <<>> THEN 0
    ELSE parseInt(SubSeq(s, 1, Len(s) - 1)) * 10 + DigitVal(s[Len(s)])

(* /^(\d+)(s|m|h|d)$/ *)
MatchesDuration(d) ==
    /\ Len(d) >= 2
    /\ d[Len(d)] \in Units
    /\ \A i \in 1 .. (Len(d) - 1) : d[i] \in Digits

(* a unit table that reads every unit as seconds *)
UnitMsSeconds(u) == 1000

UnitMs(u) ==
    CASE u = "s" -> 1000
      [] u = "m" -> 60 * 1000
      [] u = "h" -> 60 * 60 * 1000
      [] u = "d" -> 24 * 60 * 60 * 1000

Daily == <<"d", "a", "i", "l", "y">>

parseDuration(d) ==
    IF ~MatchesDuration(d)
    THEN IF d = Daily THEN 24 * 60 * 60 * 1000 ELSE InvalidDuration
    ELSE parseInt(SubSeq(d, 1, Len(d) - 1)) * UnitMs(d[Len(d)])

(* a safe parser that does not know the word daily *)
parseDurationSafeLiteralsOnly(d) ==
    IF ~MatchesDuration(d) THEN Undefined
    ELSE parseInt(SubSeq(d, 1, Len(d) - 1)) * UnitMs(d[Len(d)])

parseDurationSafe(d) ==
    IF ~MatchesDuration(d)
    THEN IF d = Daily THEN 24 * 60 * 60 * 1000 ELSE Undefined
    ELSE parseInt(SubSeq(d, 1, Len(d) - 1)) * UnitMs(d[Len(d)])

(* the function applied to a text: what it returns, or that it threw *)
parseDurationResult(d) ==
    IF parseDuration(d) = InvalidDuration
    THEN [op |-> "parseDuration", text |-> d, threw |-> TRUE]
    ELSE [op |-> "parseDuration", text |-> d, threw |-> FALSE,
          value |-> parseDuration(d)]

(* the safe variant applied to a text: it returns, a number or undefined *)
parseDurationSafeResult(d) ==
    [op |-> "parseDurationSafe", text |-> d, threw |-> FALSE,
     value |-> parseDurationSafe(d)]

(* `${n}` for a non-negative integer n below 1e21: its decimal digits *)
DigitChar(v) ==
    CASE v = 0 -> "0" [] v = 1 -> "1" [] v = 2 -> "2" [] v = 3 -> "3"
      [] v = 4 -> "4" [] v = 5 -> "5" [] v = 6 -> "6" [] v = 7 -> "7"
      [] v = 8 -> "8" [] v = 9 -> "9"

RECURSIVE toString(_)
toString(n) ==
    IF n < 10 THEN <<DigitChar(n)>>
    ELSE Append(toString(n \div 10), DigitChar(n % 10))

(* a division that rounds to the nearest integer *)
MathRound(a, b) == (2 * a + b) \div (2 * b)

(* Math.floor(a / b) for a >= 0, b > 0 *)
MathFloor(a, b) == a \div b

formatDuration(ms) ==
    LET seconds == MathFloor(ms, 1000)
        minutes == MathFloor(seconds, 60)
        hours == MathFloor(minutes, 60)
        days == MathFloor(hours, 24)
    IN  IF seconds < 60 THEN toString(seconds) \o <<"s">>
        ELSE IF minutes < 60 THEN toString(minutes) \o <<"m">>
        ELSE IF hours < 24 THEN toString(hours) \o <<"h">>
        ELSE toString(days) \o <<"d">>

(* JavaScript truthiness of an optional text / an optional number *)
Truthy(text) == text # NoText
Falsy(n) == n = Undefined \/ n = 0

----------------------------------------------------------------------------
(* State store *)

TaskOrder == SubSeq(TaskIdSeq, 1, Cardinality(DOMAIN tasks))

Range(s) == {s[i] : i \in DOMAIN s}

Put(f, k, v) == [x \in (DOMAIN f) \cup {k} |-> IF x = k THEN v ELSE f[x]]

Remove(f, k) == [x \in (DOMAIN f) \ {k} |-> f[x]]

Opt(f, k) == IF k \in DOMAIN f THEN <<f[k]>> ELSE <<>>

NewAgent ==
    [defaultMode |-> NoMode, activeTaskId |-> NoTask, recurringTaskIds |-> <<>>,
     lastCheckIn |-> 0, idleThreshold |-> NoText]

getAgent(ag, a) == IF a \in DOMAIN ag THEN ag[a] ELSE NewAgent

(* a cap that keeps the oldest entries *)
keepOldest(h, e) ==
    LET pushed == Append(h, e)
    IN  IF Len(pushed) > HistoryCap THEN SubSeq(pushed, 1, HistoryCap) ELSE pushed

addHistoryEntry(h, e) ==
    LET pushed == Append(h, e)
    IN  IF Len(pushed) > HistoryCap
        THEN SubSeq(pushed, Len(pushed) - HistoryCap + 1, Len(pushed))
        ELSE pushed

setActiveTask(ag, a, t) == Put(ag, a, [getAgent(ag, a) EXCEPT !.activeTaskId = t])

(* a list that holds the newest recurring task only *)
addRecurringTaskReplacing(ag, a, t) ==
    Put(ag, a, [getAgent(ag, a) EXCEPT !.recurringTaskIds = <<t>>])

addRecurringTask(ag, a, t) ==
    LET cur == getAgent(ag, a)
    IN  Put(ag, a,
            IF t \in Range(cur.recurringTaskIds)
            THEN cur
            ELSE [cur EXCEPT !.recurringTaskIds = Append(@, t)])

(* a check-in that starts the agent's record afresh *)
checkInAfresh(ag, a, now) == Put(ag, a, [NewAgent EXCEPT !.lastCheckIn = now])

checkInAgent(ag, a, now) == Put(ag, a, [getAgent(ag, a) EXCEPT !.lastCheckIn = now])

(* completion that leaves the owner's activeTaskId alone *)
keepActive(ag, t) == ag

clearActive(ag, t) ==
    LET a == tasks[t].owner
    IN  IF a \in DOMAIN ag /\ ag[a].activeTaskId = t
        THEN [ag EXCEPT ![a].activeTaskId = NoTask]
        ELSE ag

----------------------------------------------------------------------------
(* Inputs of the commands *)

TaskTypes == {"project", "recurring", "default"}

OneMinute == <<"1", "m">>
DefaultStatusInterval == <<"1", "5", "m">>
DefaultIdleThreshold == <<"3", "0", "m">>

RecurringEveryMinute ==
    [type |-> "recurring", cadence |-> OneMinute, statusInterval |-> NoText]

(* type, cadence, statusInterval as passed to createTask *)
Malformed == <<"x">>

CreateInputs ==
    { [type |-> "recurring", cadence |-> OneMinute, statusInterval |-> NoText],
      [type |-> "recurring", cadence |-> Malformed, statusInterval |-> NoText],
      [type |-> "recurring", cadence |-> NoText,    statusInterval |-> NoText],
      [type |-> "project",   cadence |-> NoText,    statusInterval |-> OneMinute],
      [type |-> "default",   cadence |-> NoText,    statusInterval |-> NoText] }

Modes == {NoMode, "research"}
Thresholds == {OneMinute, Malformed}

----------------------------------------------------------------------------
(* AWM commands *)

NoReply == [op |-> "none"]

OutsideDaemon ==
    tick' = [ran |-> FALSE] /\ UNCHANGED <<clock, wakeState, notified, config>>

NotDaemon == OutsideDaemon /\ UNCHANGED storage

Other == NotDaemon /\ reply' = NoReply

(* new AWM(config): an absent text is NoText, an absent number 0 *)
NoConfig == [defaultStatusInterval |-> NoText, overdueThreshold |-> 0]

(* this.config, as the constructor fills it in *)
awmConfig ==
    [defaultStatusInterval |->
         IF Truthy(config.defaultStatusInterval)
         THEN config.defaultStatusInterval ELSE DefaultStatusInterval,
     overdueThreshold |->
         IF config.overdueThreshold # 0
         THEN config.overdueThreshold ELSE DefaultOverdueThreshold]

Budget == ops < MaxOps /\ ops' = ops + 1

(* a status interval given to every new task that was passed none *)
statusIntervalForAll(params) ==
    IF Truthy(params.statusInterval) THEN params.statusInterval
    ELSE awmConfig.defaultStatusInterval

(* params.statusInterval || (type === 'project' ? defaultStatusInterval :
   undefined) *)
statusIntervalFor(params) ==
    IF Truthy(params.statusInterval) THEN params.statusInterval
    ELSE IF params.type = "project" THEN awmConfig.defaultStatusInterval
    ELSE NoText

(* the Task | undefined a task command returns: the task found under the id
   it was given, or none *)
Returns(op, t) ==
    /\ reply' = [op |-> op, threw |-> FALSE, taskId |-> t,
                 task |-> IF t \in DOMAIN tasks THEN t ELSE NoTask]
    /\ NotDaemon

createTask(in, owner) ==
    /\ Budget
    /\ Cardinality(DOMAIN tasks) < MaxTasks
    /\ LET id == TaskIdSeq[Cardinality(DOMAIN tasks) + 1]
           task == [type |-> in.type, owner |-> owner, status |-> "active",
                    cadence |-> in.cadence,
                    statusInterval |-> statusIntervalFor(in),
                    lastUpdate |-> Now, createdAt |-> Now, completedAt |-> 0]
       IN  /\ tasks' = Put(tasks, id, task)
           /\ agents' = IF in.type = "project" THEN setActiveTask(agents, owner, id)
                        ELSE IF in.type = "recurring" THEN addRecurringTask(agents, owner, id)
                        ELSE agents
           /\ reply' = [op |-> "createTask", threw |-> FALSE, params |-> in,
                        owner |-> owner, task |-> id]
    /\ UNCHANGED history
    /\ NotDaemon

updateTaskStatus(t, outcome) ==
    /\ Budget
    /\ IF t \notin DOMAIN tasks
       THEN UNCHANGED <<tasks, agents, history>>
       ELSE /\ tasks' = [tasks EXCEPT ![t].lastUpdate = Now]
            /\ agents' = checkInAgent(agents, tasks[t].owner, Now)
            /\ history' = addHistoryEntry(history,
                   [taskId |-> t, agentId |-> tasks[t].owner,
                    timestamp |-> Now, outcome |-> outcome])
    /\ Returns("updateTaskStatus", t)

(* a completion that logs its entry even for an id that is not in the store *)
completeTaskLoggingUnknown(t) ==
    /\ Budget
    /\ history' = addHistoryEntry(history,
           [taskId |-> t, agentId |-> "", timestamp |-> Now, outcome |-> "success"])
    /\ UNCHANGED <<tasks, agents>>
    /\ Returns("completeTask", t)

completeTask(t) ==
    /\ Budget
    /\ IF t \notin DOMAIN tasks
       THEN UNCHANGED <<tasks, agents, history>>
       ELSE /\ tasks' = [tasks EXCEPT ![t].status = "completed",
                                      ![t].completedAt = Now,
                                      ![t].lastUpdate = Now]
            /\ agents' = clearActive(agents, t)
            /\ history' = addHistoryEntry(history,
                   [taskId |-> t, agentId |-> tasks[t].owner,
                    timestamp |-> Now, outcome |-> "success"])
    /\ Returns("completeTask", t)

pauseTask(t) ==
    /\ Budget
    /\ IF t \notin DOMAIN tasks
       THEN UNCHANGED tasks
       ELSE tasks' = [tasks EXCEPT ![t].status = "paused", ![t].lastUpdate = Now]
    /\ UNCHANGED <<agents, history>>
    /\ Returns("pauseTask", t)

resumeTask(t) ==
    /\ Budget
    /\ IF t \notin DOMAIN tasks
       THEN UNCHANGED tasks
       ELSE tasks' = [tasks EXCEPT ![t].status = "active", ![t].lastUpdate = Now]
    /\ UNCHANGED <<agents, history>>
    /\ Returns("resumeTask", t)

abandonTask(t) ==
    /\ Budget
    /\ IF t \notin DOMAIN tasks
       THEN UNCHANGED <<tasks, agents>>
       ELSE /\ tasks' = [tasks EXCEPT ![t].status = "abandoned", ![t].lastUpdate = Now]
            /\ agents' = clearActive(agents, t)
    /\ UNCHANGED history
    /\ Returns("abandonTask", t)

configureAgent(a, mode) ==
    /\ Budget
    /\ LET existing == getAgent(agents, a)
       IN  agents' = Put(agents, a,
               [defaultMode |-> IF mode # NoMode THEN mode ELSE existing.defaultMode,
                activeTaskId |-> existing.activeTaskId,
                recurringTaskIds |-> existing.recurringTaskIds,
                lastCheckIn |-> 0,
                idleThreshold |-> NoText])
    /\ reply' = [op |-> "configureAgent", threw |-> FALSE, agentId |-> a, mode |-> mode]
    /\ UNCHANGED <<tasks, history>>
    /\ NotDaemon

(* a check-in that also stamps the agent's tasks *)
checkInStampingTasks(a, withMessage) ==
    /\ Budget
    /\ agents' = checkInAgent(agents, a, Now)
    /\ tasks' = [t \in DOMAIN tasks |->
                   IF tasks[t].owner = a THEN [tasks[t] EXCEPT !.lastUpdate = Now]
                   ELSE tasks[t]]
    /\ UNCHANGED history
    /\ Other

checkIn(a, withMessage) ==
    /\ Budget
    /\ agents' = checkInAgent(agents, a, Now)
    /\ history' = IF withMessage
                  THEN addHistoryEntry(history,
                           [taskId |-> "checkin", agentId |-> a,
                            timestamp |-> Now, outcome |-> "success"])
                  ELSE history
    /\ UNCHANGED tasks
    /\ Other

setIdleThreshold(a, threshold) ==
    /\ Budget
    /\ agents' = Put(agents, a, [getAgent(agents, a) EXCEPT !.idleThreshold = threshold])
    /\ UNCHANGED <<tasks, history>>
    /\ Other

AdvanceClock ==
    /\ clock < MaxClock
    /\ clock' = clock + 1
    /\ tick' = [ran |-> FALSE]
    /\ reply' = NoReply
    /\ UNCHANGED <<tasks, agents, history, wakeState, ops, notified, storage, config>>

----------------------------------------------------------------------------
(* Overdue evaluator, monitoring policy (getOverdueTasks, getIdleAgents) *)

(* a filter that lets every status through *)
AnyStatus(t) == TRUE

IsActive(t) == tasks[t].status = "active"

RecurringChecked(t) == tasks[t].type = "recurring" /\ Truthy(tasks[t].cadence)

StatusChecked(t) == tasks[t].type = "project" /\ Truthy(tasks[t].statusInterval)

MonitoringOverdue(now, lastUpdate, interval, threshold) ==
    now - lastUpdate > interval * threshold

(* getOverdueTasks parses with the strict parser inside its loop *)
getOverdueTasksThrows ==
    \E t \in DOMAIN tasks :
        /\ IsActive(t)
        /\ \/ RecurringChecked(t) /\ parseDuration(tasks[t].cadence) = InvalidDuration
           \/ StatusChecked(t) /\ parseDuration(tasks[t].statusInterval) = InvalidDuration

overdueRecurring(now, threshold) ==
    LET Test(t) == /\ IsActive(t)
                   /\ RecurringChecked(t)
                   /\ MonitoringOverdue(now, tasks[t].lastUpdate,
                                        parseDuration(tasks[t].cadence), threshold)
    IN  SelectSeq(TaskOrder, Test)

overdueStatusChecks(now, threshold) ==
    LET Test(t) == /\ IsActive(t)
                   /\ StatusChecked(t)
                   /\ MonitoringOverdue(now, tasks[t].lastUpdate,
                                        parseDuration(tasks[t].statusInterval), threshold)
    IN  SelectSeq(TaskOrder, Test)

IsIdle(now, lastActivity, thresholdMs) == now - lastActivity > thresholdMs

getIdleAgents(now, defaultThreshold) ==
    { a \in DOMAIN agents :
        /\ agents[a].defaultMode # NoMode
        /\ LET threshold == IF Truthy(agents[a].idleThreshold)
                            THEN agents[a].idleThreshold ELSE defaultThreshold
               thresholdMs == parseDurationSafe(threshold)
           IN  /\ ~Falsy(thresholdMs)
               /\ IsIdle(now, agents[a].lastCheckIn, thresholdMs) }

----------------------------------------------------------------------------
(* Immediate policy: the agent's context and its pull queue
   (getAgentContext, getAgentWork), and the queries as commands *)

(* a comparison that counts the boundary itself as overdue *)
ImmediateOverdueInclusive(now, lastUpdate, interval) == now - lastUpdate >= interval

ImmediateOverdue(now, lastUpdate, interval) == now - lastUpdate > interval

Listed(t) == t \in DOMAIN tasks /\ IsActive(t) /\ Truthy(tasks[t].cadence)

(* the agent's active task, when it exists and its status is active *)
contextActiveTask(agent) ==
    IF /\ agent.activeTaskId # NoTask
       /\ agent.activeTaskId \in DOMAIN tasks
       /\ IsActive(agent.activeTaskId)
    THEN agent.activeTaskId
    ELSE NoTask

StatusDue(t) == t # NoTask /\ Truthy(tasks[t].statusInterval)

(* getAgentContext parses with the strict parser *)
getAgentContextThrows(agent) ==
    \/ \E t \in Range(agent.recurringTaskIds) :
           Listed(t) /\ parseDuration(tasks[t].cadence) = InvalidDuration
    \/ /\ StatusDue(contextActiveTask(agent))
       /\ parseDuration(tasks[contextActiveTask(agent)].statusInterval) = InvalidDuration

contextOverdueRecurring(agent, now) ==
    LET Test(t) == /\ Listed(t)
                   /\ ImmediateOverdue(now, tasks[t].lastUpdate,
                                       parseDuration(tasks[t].cadence))
    IN  SelectSeq(agent.recurringTaskIds, Test)

contextPendingStatusCheck(agent, now) ==
    LET t == contextActiveTask(agent)
    IN  IF /\ StatusDue(t)
           /\ ImmediateOverdue(now, tasks[t].lastUpdate,
                               parseDuration(tasks[t].statusInterval))
        THEN <<t>>
        ELSE <<>>

agentContext(a, now) ==
    LET agent == getAgent(agents, a)
    IN  IF getAgentContextThrows(agent)
        THEN [op |-> "getAgentContext", agentId |-> a, threw |-> TRUE]
        ELSE [op |-> "getAgentContext", agentId |-> a, threw |-> FALSE,
              activeTask |-> contextActiveTask(agent),
              defaultMode |-> agent.defaultMode,
              overdueRecurring |-> contextOverdueRecurring(agent, now),
              pendingStatusCheck |-> contextPendingStatusCheck(agent, now)]

(* getAgentWork: parseDurationSafe(cadence) || 0 *)
workInterval(t) ==
    LET parsed == parseDurationSafe(tasks[t].cadence)
    IN  IF Falsy(parsed) THEN 0 ELSE parsed

overdueMins(now, t) == (now - tasks[t].lastUpdate) \div 60000

workOverdueTasks(agent, now) ==
    LET Test(t) == /\ Listed(t)
                   /\ ImmediateOverdue(now, tasks[t].lastUpdate, workInterval(t))
        found == SelectSeq(agent.recurringTaskIds, Test)
    IN  [i \in DOMAIN found |-> [id |-> found[i], overdueMins |-> overdueMins(now, found[i])]]

(* overdueTasks.sort((a, b) => b.overdueMins - a.overdueMins): a stable sort,
   here by insertion after the entries that are at least as overdue *)
(* an entry put at the end, whatever its overdueMins *)
InsertLast(sorted, x) == Append(sorted, x)

InsertByOverdue(sorted, x) ==
    LET k == Cardinality({i \in DOMAIN sorted : sorted[i].overdueMins >= x.overdueMins})
    IN  SubSeq(sorted, 1, k) \o <<x>> \o SubSeq(sorted, k + 1, Len(sorted))

RECURSIVE sortByOverdue(_)
sortByOverdue(s) ==
    IF s = <<>> THEN s
    ELSE InsertByOverdue(sortByOverdue(SubSeq(s, 1, Len(s) - 1)), s[Len(s)])

(* the parts of the message, in the order they are pushed *)
(* a message that says nothing to do whenever no task is overdue *)
workMessageTasksOnly(workTasks, idleTask) ==
    IF workTasks # <<>> THEN <<"do this now">> ELSE <<"nothing to do">>

workMessage(workTasks, idleTask) ==
    (IF workTasks # <<>> THEN <<"do this now">> ELSE <<>>)
    \o (IF idleTask # NoMode THEN <<"idle mode">> ELSE <<>>)
    \o (IF workTasks = <<>> /\ idleTask = NoMode THEN <<"nothing to do">> ELSE <<>>)

agentWork(a, now) ==
    LET agent == getAgent(agents, a)
        workTasks == sortByOverdue(workOverdueTasks(agent, now))
        idleTask == agent.defaultMode
    IN  [op |-> "getAgentWork", agentId |-> a,
         hasWork |-> (workTasks # <<>> \/ idleTask # NoMode),
         tasks |-> workTasks,
         idleTask |-> idleTask,
         message |-> workMessage(workTasks, idleTask)]

getAgentWork(a, log) ==
    /\ Budget
    /\ history' = IF log
                  THEN addHistoryEntry(history,
                           [taskId |-> "pull", agentId |-> a,
                            timestamp |-> Now, outcome |-> "none"])
                  ELSE history
    /\ agents' = checkInAgent(agents, a, Now)
    /\ reply' = agentWork(a, Now)
    /\ UNCHANGED tasks
    /\ NotDaemon

Query(result) ==
    /\ reply' = result
    /\ NotDaemon
    /\ UNCHANGED <<tasks, agents, history, ops>>

getAgentContext(a) == Query(agentContext(a, Now))

getOverdueTasks ==
    Query(IF getOverdueTasksThrows
          THEN [op |-> "getOverdueTasks", threw |-> TRUE]
          ELSE [op |-> "getOverdueTasks", threw |-> FALSE,
                recurring |-> overdueRecurring(Now, awmConfig.overdueThreshold),
                statusChecks |-> overdueStatusChecks(Now, awmConfig.overdueThreshold)])

GetIdleAgents ==
    Query([op |-> "getIdleAgents", threw |-> FALSE,
           idle |-> getIdleAgents(Now, DefaultIdleThreshold)])

----------------------------------------------------------------------------
(* Storage objects (storage.ts).  The commands above are those of one AWM
   whose Storage is the only writer of its data file; tasks, agents and
   history are then what the file and the object both hold.  Here several
   Storage objects of one process are opened on data files.  A file is
   missing, unreadable, or holds a state.  The state of an object is a
   record of references to three containers: those it got from
   { ...DEFAULT_STATE } are the containers of the module's DEFAULT_STATE
   itself (the fields named in `shared`), the others are its own.  A stored
   task is represented by its status, an agent by its lastCheckIn, a history
   entry by its timestamp. *)

Paths == {"p1", "p2"}
Objects == {"A", "B"}
Fields == {"tasks", "agents", "history"}

DEFAULT_STATE == [tasks |-> << >>, agents |-> << >>, history |-> << >>]

SampleState ==
    [tasks |-> [t \in {"t1"} |-> "active"],
     agents |-> [a \in {"frank"} |-> 1],
     history |-> <<1>>]

FileConditions ==
    { [kind |-> "missing", content |-> DEFAULT_STATE],
      [kind |-> "unreadable", content |-> DEFAULT_STATE],
      [kind |-> "ok", content |-> SampleState] }

(* no Storage constructed, no file written, DEFAULT_STATE as the module
   defines it *)
NoStorage ==
    [default |-> DEFAULT_STATE,
     files |-> [p \in Paths |-> [kind |-> "missing", content |-> DEFAULT_STATE]],
     objects |-> << >>]

(* this.state of object i *)
stateOf(st, i) ==
    LET o == st.objects[i]
        at(f) == IF f \in o.shared THEN st.default[f] ELSE o.own[f]
    IN  [tasks |-> at("tasks"), agents |-> at("agents"), history |-> at("history")]

(* Storage.load: what it leaves in the files and what it returns.  A
   missing file is first written with DEFAULT_STATE as it is now. *)
load(st, p) ==
    CASE st.files[p].kind = "missing" ->
             [files |-> [st.files EXCEPT ![p] = [kind |-> "ok", content |-> st.default]],
              shared |-> Fields, own |-> DEFAULT_STATE]
      [] st.files[p].kind = "unreadable" ->
             [files |-> st.files, shared |-> Fields, own |-> DEFAULT_STATE]
      [] st.files[p].kind = "ok" ->
             [files |-> st.files, shared |-> {}, own |-> st.files[p].content]

opened(st, i, p) ==
    LET l == load(st, p)
    IN  [st EXCEPT !.files = l.files,
                   !.objects = Put(st.objects, i,
                                   [path |-> p, shared |-> l.shared, own |-> l.own])]

(* Storage.reload: this.state = this.load() *)
reload(st, i) == opened(st, i, st.objects[i].path)

(* Storage.save() *)
save(st, i) ==
    [st EXCEPT !.files[st.objects[i].path] = [kind |-> "ok", content |-> stateOf(st, i)]]

(* a container of this.state changed in place: the container itself, which
   is DEFAULT_STATE's when the field is shared *)
inPlace(st, i, f, v) ==
    IF f \in st.objects[i].shared
    THEN [st EXCEPT !.default[f] = v]
    ELSE [st EXCEPT !.objects[i].own[f] = v]

(* this.state.<f> = v: the field now refers to a new container *)
reassigned(st, i, f, v) ==
    [st EXCEPT !.objects[i].shared = @ \ {f}, !.objects[i].own[f] = v]

StorageStep(st) ==
    /\ storage' = st
    /\ OutsideDaemon
    /\ UNCHANGED <<tasks, agents, history>>

(* new Storage(dataPath) *)
newStorage(i, p) ==
    /\ Budget
    /\ i \notin DOMAIN storage.objects
    /\ \E st \in {opened(storage, i, p)} :
           /\ StorageStep(st)
           /\ reply' = [op |-> "Storage", threw |-> FALSE, object |-> i,
                        found |-> storage.files[p].kind, state |-> stateOf(st, i)]

storageSaveTask(i, id, status) ==
    /\ Budget
    /\ i \in DOMAIN storage.objects
    /\ StorageStep(save(inPlace(storage, i, "tasks",
                                Put(stateOf(storage, i).tasks, id, status)), i))
    /\ reply' = NoReply

storageSaveAgent(i, a, lastCheckIn) ==
    /\ Budget
    /\ i \in DOMAIN storage.objects
    /\ StorageStep(save(inPlace(storage, i, "agents",
                                Put(stateOf(storage, i).agents, a, lastCheckIn)), i))
    /\ reply' = NoReply

storageAddHistoryEntry(i, e) ==
    /\ Budget
    /\ i \in DOMAIN storage.objects
    /\ LET pushed == Append(stateOf(storage, i).history, e)
           after == inPlace(storage, i, "history", pushed)
       IN  StorageStep(save(IF Len(pushed) > HistoryCap
                            THEN reassigned(after, i, "history", addHistoryEntry(pushed, e))
                            ELSE after, i))
    /\ reply' = NoReply

(* a read: the object's state after the reload, if the read reloads, and
   what the read returns from it *)
StorageRead(i, op, key, reloads, Result(_)) ==
    /\ i \in DOMAIN storage.objects
    /\ \E st \in {IF reloads THEN reload(storage, i) ELSE storage} :
           /\ StorageStep(st)
           /\ reply' = [op |-> op, threw |-> FALSE, object |-> i, key |-> key,
                        result |-> Result(stateOf(st, i))]
    /\ UNCHANGED ops

storageGetTask(i, id) ==
    LET Result(state) == Opt(state.tasks, id)
    IN  StorageRead(i, "getTask", id, TRUE, Result)

storageGetAllTasks(i) ==
    LET Result(state) == state.tasks
    IN  StorageRead(i, "getAllTasks", "", TRUE, Result)

storageGetActiveTasks(i) ==
    LET Result(state) == {t \in DOMAIN state.tasks : state.tasks[t] = "active"}
    IN  StorageRead(i, "getActiveTasks", "", TRUE, Result)

storageGetAgent(i, a) ==
    LET Result(state) == Opt(state.agents, a)
    IN  StorageRead(i, "getAgent", a, FALSE, Result)

storageGetAllAgents(i) ==
    LET Result(state) == state.agents
    IN  StorageRead(i, "getAllAgents", "", TRUE, Result)

(* getHistory(): history.slice(-50) *)
storageGetHistory(i) ==
    LET Result(state) ==
            SubSeq(state.history, Max(1, Len(state.history) - 49), Len(state.history))
    IN  StorageRead(i, "getHistory", "", FALSE, Result)

(* runDaemon, lines 168-170, as the data files see it.  The daemon is a
   process of its own: new AWM constructs a Storage on dataPath, with the
   DEFAULT_STATE of that process; getOverdueTasks reads through
   getActiveTasks and getIdleAgents through getAllAgents, each of which
   reloads.  The object is gone when the pass ends. *)
DaemonObject == "daemon"

(* a pass that records a check-in, as a pull through getAgentWork does *)
daemonStoreCheckingIn(st, p) ==
    LET d == DaemonObject
        own == [st EXCEPT !.default = DEFAULT_STATE]
        read == reload(reload(opened(own, d, p), d), d)
        wrote == save(inPlace(read, d, "agents",
                              Put(stateOf(read, d).agents, "frank", 2)), d)
    IN  [wrote EXCEPT !.default = st.default, !.objects = Remove(@, d)]

daemonStore(st, p) ==
    LET d == DaemonObject
        own == [st EXCEPT !.default = DEFAULT_STATE]
        read == reload(reload(opened(own, d, p), d), d)
    IN  [read EXCEPT !.default = st.default, !.objects = Remove(@, d)]

runDaemonOnFile(p) ==
    /\ StorageStep(daemonStore(storage, p))
    /\ reply' = [op |-> "runDaemon", threw |-> FALSE, path |-> p,
                 found |-> storage.files[p].kind]
    /\ UNCHANGED ops

----------------------------------------------------------------------------
(* Daemon: one pass of runDaemon *)

NoWakeState == [lastWake |-> << >>, pendingWakes |-> << >>]

(* agentTaskList: the overdue recurring tasks, then the overdue status
   checks, of each owner; plus an empty list for an idle agent that has a
   default mode and no overdue task *)
OwnedBy(list, a) ==
    LET Test(t) == tasks[t].owner = a
    IN  SelectSeq(list, Test)

agentTaskListKeys(recurring, statusChecks, idle) ==
    {tasks[t].owner : t \in Range(recurring) \cup Range(statusChecks)}
        \cup {a \in idle : agents[a].defaultMode # NoMode}

agentTaskList(now) ==
    LET recurring == overdueRecurring(now, DefaultOverdueThreshold)
        statusChecks == overdueStatusChecks(now, DefaultOverdueThreshold)
        idle == getIdleAgents(now, DefaultIdleThreshold)
    IN  [a \in agentTaskListKeys(recurring, statusChecks, idle) |->
            OwnedBy(recurring, a) \o OwnedBy(statusChecks, a)]

(* a gate that never skips: what runDaemon would do without lines 212-217 *)
CooldownNever(now, lastWoke) == FALSE

CooldownActive(now, lastWoke) == now - lastWoke < MIN_WAKE_INTERVAL_MS

RECURSIVE latestTaskUpdate(_)
latestTaskUpdate(list) ==
    IF list = <<>> THEN 0
    ELSE Max(latestTaskUpdate(Tail(list)), tasks[Head(list)].lastUpdate)

(* lines.length > 0: overdue tasks, or the idle entry of an agent with a
   default mode *)
HasMessage(list, a, idle) ==
    \/ list # <<>>
    \/ a \in idle /\ agents[a].defaultMode # NoMode

Responded(latest, pending) == latest > pending.lastTaskUpdate

(* a grace window that never ends *)
GraceNeverExpires(now, pending) == FALSE

GraceExpired(now, pending) == now - pending.wakeTime >= ESCALATION_GRACE_MS

(* a pending wake whose snapshot is the time of the pass *)
PendingWakeStampedNow(now, list, latest) ==
    [wakeTime |-> now, taskIds |-> list, lastTaskUpdate |-> now]

NewPendingWake(now, list, latest) ==
    [wakeTime |-> now, taskIds |-> list, lastTaskUpdate |-> latest]

ClawdbotAgents ==
    {"frank", "nova", "tex", "linc", "ivy", "penny", "stone", "pixel", "trey"}
SlackAgents ==
    {"frank", "nova", "tex", "linc", "ivy", "penny", "stone", "pixel", "trey"}

silentWake(a, fetchOk) == a \in ClawdbotAgents /\ fetchOk
escalateToSlack(a, postOk) == a \in SlackAgents /\ postOk

(* What the per-agent loop body leaves for the agent: its entry in lastWake
   (lw) and in pendingWakes (pw), each a sequence of length 0 or 1, the
   outcome of each channel call (none when the call is not made), and
   whether it set stateChanged.  Skipped is the agent left as it was. *)
Skipped(a, ws) ==
    [lw |-> Opt(ws.lastWake, a), pw |-> Opt(ws.pendingWakes, a),
     silent |-> "none", visible |-> "none", changed |-> FALSE]

Acknowledged(skip) == [skip EXCEPT !.pw = <<>>, !.changed = TRUE]

(* an escalation that does not restart the cooldown *)
EscalatedUnstamped(skip, now) ==
    [lw |-> skip.lw, pw |-> <<>>, silent |-> "none", visible |-> "ok", changed |-> TRUE]

(* an escalation that leaves the pending wake in place *)
EscalatedKeepsPending(skip, now) ==
    [lw |-> <<now>>, pw |-> skip.pw, silent |-> "none", visible |-> "ok", changed |-> TRUE]

Escalated(skip, now) ==
    [lw |-> <<now>>, pw |-> <<>>, silent |-> "none", visible |-> "ok", changed |-> TRUE]

(* a failed escalation that drops the pending wake *)
EscalationFailedDropsPending(skip) ==
    [skip EXCEPT !.visible = "fail", !.pw = <<>>, !.changed = TRUE]

EscalationFailed(skip) == [skip EXCEPT !.visible = "fail"]

(* a silent wake that records the pending wake and leaves lastWake alone *)
SilentSentUnstamped(skip, now, list, latest) ==
    [lw |-> skip.lw, pw |-> <<NewPendingWake(now, list, latest)>>,
     silent |-> "ok", visible |-> "none", changed |-> TRUE]

SilentSent(skip, now, list, latest) ==
    [lw |-> <<now>>, pw |-> <<NewPendingWake(now, list, latest)>>,
     silent |-> "ok", visible |-> "none", changed |-> TRUE]

(* a fallback that does not record the wake *)
FallbackUnrecorded(skip, now) == [skip EXCEPT !.silent = "fail", !.visible = "ok"]

FallbackSent(skip, now) ==
    [lw |-> <<now>>, pw |-> skip.pw, silent |-> "fail", visible |-> "ok", changed |-> TRUE]

FallbackFailed(skip) == [skip EXCEPT !.silent = "fail", !.visible = "fail"]

EvalAgent(a, list, idle, ws, now, fetchOk, postOk) ==
    LET lastWoke == IF a \in DOMAIN ws.lastWake THEN ws.lastWake[a] ELSE 0
        pending == Opt(ws.pendingWakes, a)
        latest == latestTaskUpdate(list)
        skip == Skipped(a, ws)
    IN  IF CooldownActive(now, lastWoke) THEN skip
        ELSE IF ~HasMessage(list, a, idle) THEN skip
        ELSE IF pending # <<>>
        THEN IF Responded(latest, pending[1]) THEN Acknowledged(skip)
             ELSE IF GraceExpired(now, pending[1])
             THEN IF escalateToSlack(a, postOk)
                  THEN Escalated(skip, now)
                  ELSE EscalationFailed(skip)
             ELSE skip
        ELSE IF silentWake(a, fetchOk) THEN SilentSent(skip, now, list, latest)
             ELSE IF escalateToSlack(a, postOk) THEN FallbackSent(skip, now)
             ELSE FallbackFailed(skip)

(* Clean up stale pending wakes: the agents whose entry is deleted *)
StalePending(pw, keys) == {a \in DOMAIN pw : a \notin keys}

NoCalls == [a \in Agents |-> [silent |-> "none", visible |-> "none"]]

NoTick == [ran |-> FALSE]

NeverNotified == [a \in Agents |-> [prev |-> 0, last |-> 0, via |-> NoCalls[a]]]

(* The outcomes of the loop body for one agent, over the outcomes of the
   two channels *)
AgentOutcomes(a, list, idle, ws, now) ==
    {EvalAgent(a, list, idle, ws, now, fetchOk, postOk) :
        fetchOk \in BOOLEAN, postOk \in BOOLEAN}

(* a loop that is left when both channels fail for an agent: the agents
   after it (frank is taken before nova) are left as they were *)
agentLoopLeftOnFailure(list, idle, ws, now) ==
    LET raw == {res \in [DOMAIN list ->
                           UNION {AgentOutcomes(a, list[a], idle, ws, now) : a \in DOMAIN list}] :
                   \A a \in DOMAIN list : res[a] \in AgentOutcomes(a, list[a], idle, ws, now)}
        left(res) == /\ "frank" \in DOMAIN list
                     /\ res["frank"].visible = "fail"
    IN  {[a \in DOMAIN list |->
             IF a = "nova" /\ left(res) THEN Skipped(a, ws) ELSE res[a]] : res \in raw}

(* for (const [agentId, tasks] of agentTaskList): the outcomes of the loop,
   one outcome of the loop body for each agent *)
agentLoop(list, idle, ws, now) ==
    {res \in [DOMAIN list ->
                UNION {AgentOutcomes(a, list[a], idle, ws, now) : a \in DOMAIN list}] :
        \A a \in DOMAIN list : res[a] \in AgentOutcomes(a, list[a], idle, ws, now)}

(* The wake state after the loop (res: the loop body's outcome for each agent
   of agentTaskList) and the stale cleanup *)
WakeStateAfter(ws, list, res) ==
    LET lwOf(a) == IF a \in DOMAIN list THEN res[a].lw ELSE Opt(ws.lastWake, a)
        pwOf(a) == IF a \in DOMAIN list THEN res[a].pw ELSE Opt(ws.pendingWakes, a)
        looped == [a \in {x \in Agents : pwOf(x) # <<>>} |-> pwOf(a)[1]]
        stale == StalePending(looped, DOMAIN list)
    IN  [lastWake |-> [a \in {x \in Agents : lwOf(x) # <<>>} |-> lwOf(a)[1]],
         pendingWakes |-> [a \in (DOMAIN looped) \ stale |-> looped[a]]]

(* a flag that is set by every pass that gets to the loop *)
stateChangedAlways(ws, list, res) == TRUE

(* stateChanged at the end of the pass: set by the loop body for some agent,
   or by the cleanup when it deletes a pending wake *)
stateChanged(ws, list, res) ==
    \/ \E a \in DOMAIN list : res[a].changed
    \/ \E a \in DOMAIN ws.pendingWakes : a \notin DOMAIN list

Delivered(calls) == calls.silent = "ok" \/ calls.visible = "ok"

NoteDelivered(calls, now) ==
    [a \in Agents |->
        IF Delivered(calls[a])
        THEN [prev |-> notified[a].last, last |-> now, via |-> calls[a]]
        ELSE notified[a]]

(* One pass, given what it read at its start: whether getOverdueTasks threw,
   agentTaskList and the idle agents *)
runDaemon(threw, list, idle) ==
    LET now == Now
        ws == wakeState
    IN  IF threw \/ DOMAIN list = {}
        THEN /\ wakeState' = ws
             /\ tick' = [ran |-> TRUE, pre |-> ws, calls |-> NoCalls,
                         loads |-> IF threw THEN 0 ELSE 1, mem |-> ws, saved |-> FALSE,
                         told |-> notified]
             /\ notified' = notified
        ELSE
        \E res \in agentLoop(list, idle, ws, now) :
            /\ \E calls \in {[a \in Agents |->
                               IF a \in DOMAIN list
                               THEN [silent |-> res[a].silent, visible |-> res[a].visible]
                               ELSE NoCalls[a]]} :
                   /\ wakeState' = IF stateChanged(ws, list, res)
                                   THEN WakeStateAfter(ws, list, res) ELSE ws
                   /\ tick' = [ran |-> TRUE, pre |-> ws, calls |-> calls, loads |-> 1,
                               mem |-> WakeStateAfter(ws, list, res),
                               saved |-> stateChanged(ws, list, res),
                               told |-> notified]
                   /\ notified' = NoteDelivered(calls, now)

Tick ==
    /\ \E threw \in {getOverdueTasksThrows} :
       \E list \in {IF threw THEN << >> ELSE agentTaskList(Now)},
          idle \in {IF threw THEN {} ELSE getIdleAgents(Now, DefaultIdleThreshold)} :
           runDaemon(threw, list, idle)
    /\ reply' = NoReply
    /\ UNCHANGED <<clock, tasks, agents, history, ops, storage, config>>

----------------------------------------------------------------------------
(* Specification *)

TaskArgs == (DOMAIN tasks) \cup {"missing"}

Init ==
    /\ clock = 1
    /\ tasks = << >>
    /\ agents = << >>
    /\ history = << >>
    /\ wakeState = NoWakeState
    /\ ops = 0
    /\ tick = NoTick
    /\ notified = NeverNotified
    /\ reply = NoReply
    /\ storage = NoStorage
    /\ config = NoConfig

CompleteTask == \E t \in TaskArgs : completeTask(t)
PauseTask == \E t \in TaskArgs : pauseTask(t)
ResumeTask == \E t \in TaskArgs : resumeTask(t)
AbandonTask == \E t \in TaskArgs : abandonTask(t)
CheckIn == \E a \in Agents, withMessage \in BOOLEAN : checkIn(a, withMessage)
SetIdleThreshold == \E a \in Agents, th \in Thresholds : setIdleThreshold(a, th)
GetAgentWork == \E a \in Agents, log \in BOOLEAN : getAgentWork(a, log)

(* The wake engine and the commands that decide what it reads: a recurring
   task assigned to an agent, a status update of a task, an agent given a
   default mode. *)
CreateTask == \E a \in Agents : createTask(RecurringEveryMinute, a)
UpdateTaskStatus == \E t \in DOMAIN tasks : updateTaskStatus(t, "success")
ConfigureAgent == \E a \in Agents : configureAgent(a, "research")

Next ==
    \/ CreateTask
    \/ UpdateTaskStatus
    \/ ConfigureAgent
    \/ AdvanceClock
    \/ Tick

Spec == Init /\ [][Next]_vars

(* The daemon with an agent that never reports: no task is ever updated.
   The scheduler keeps running passes and time keeps passing (up to the
   horizon); the visible channel is not down forever, so a pass whose
   visible calls all get through is taken whenever one stays possible. *)
TickOk == Tick /\ \A a \in Agents : tick'.calls[a].visible # "fail"

NextLive == CreateTask \/ AdvanceClock \/ Tick

SpecLive ==
    /\ Init
    /\ [][NextLive]_vars
    /\ WF_vars(AdvanceClock)
    /\ WF_vars(TickOk)

(* The task store on its own: every command of the manager with its
   arguments, the queries, and the clock over its first instants. *)
MaxStoreClock == 3

CreateAnyTask == \E in \in CreateInputs, a \in Agents : createTask(in, a)
UpdateAnyTask == \E t \in TaskArgs : updateTaskStatus(t, "success")
ConfigureAnyAgent == \E a \in Agents, mode \in Modes : configureAgent(a, mode)
GetAgentContext == \E a \in Agents : getAgentContext(a)
StoreClock == clock < MaxStoreClock /\ AdvanceClock

NextStore ==
    \/ CreateAnyTask
    \/ UpdateAnyTask
    \/ CompleteTask
    \/ PauseTask
    \/ ResumeTask
    \/ AbandonTask
    \/ ConfigureAnyAgent
    \/ CheckIn
    \/ SetIdleThreshold
    \/ GetAgentWork
    \/ GetAgentContext
    \/ getOverdueTasks
    \/ GetIdleAgents
    \/ StoreClock

SpecStore == Init /\ [][NextStore]_vars

(* One task at the boundary of its interval: the store as createTask left it
   some time ago, the time elapsed since being the interval, or the interval
   times the overdue threshold, give or take a millisecond. *)
Intervals ==
    { [text |-> <<"1", "m">>, ms |-> 60000],
      [text |-> <<"9", "0", "s">>, ms |-> 90000],
      [text |-> <<"5", "m">>, ms |-> 300000] }

Elapsed(ms) ==
    {ms - 1, ms, ms + 1,
     ms * DefaultOverdueThreshold - 1, ms * DefaultOverdueThreshold,
     ms * DefaultOverdueThreshold + 1}

CreatedTask(type, owner, text, at) ==
    [type |-> type, owner |-> owner, status |-> "active",
     cadence |-> IF type = "recurring" THEN text ELSE NoText,
     statusInterval |-> IF type = "project" THEN text ELSE NoText,
     lastUpdate |-> at, createdAt |-> at, completedAt |-> 0]

Quiet ==
    /\ history = << >>
    /\ wakeState = NoWakeState
    /\ ops = 0
    /\ tick = NoTick
    /\ notified = NeverNotified
    /\ reply = NoReply
    /\ storage = NoStorage
    /\ config = NoConfig

InitBoundary ==
    /\ clock = 1
    /\ \E type \in {"recurring", "project"}, owner \in Agents, iv \in Intervals :
       \E e \in Elapsed(iv.ms) :
           /\ tasks = [t \in {"t1"} |-> CreatedTask(type, owner, iv.text, Now - e)]
           /\ agents = [a \in {owner} |->
                  IF type = "project"
                  THEN [NewAgent EXCEPT !.activeTaskId = "t1"]
                  ELSE [NewAgent EXCEPT !.recurringTaskIds = <<"t1">>]]
    /\ Quiet

NextBoundary == GetAgentContext \/ GetAgentWork \/ getOverdueTasks

SpecBoundary == InitBoundary /\ [][NextBoundary]_vars

(* The pull queue of an agent with three recurring tasks of cadence 1m,
   created together and last touched (paused and resumed) at different
   times: 30 s, 5 min, 12 min, 12 min 30 s or 40 min ago.  The other agent
   has no stored configuration. *)
WorkAges == {30000, 300000, 720000, 750000, 2400000}

InitWork ==
    /\ clock = Len(Timeline)
    /\ \E age \in [{"t1", "t2", "t3"} -> WorkAges], mode \in Modes :
           /\ tasks = [t \in {"t1", "t2", "t3"} |->
                  [CreatedTask("recurring", "frank", OneMinute, Now - 2400000)
                      EXCEPT !.lastUpdate = Now - age[t]]]
           /\ agents = [a \in {"frank"} |->
                  [NewAgent EXCEPT !.recurringTaskIds = <<"t1", "t2", "t3">>,
                                   !.defaultMode = mode]]
    /\ Quiet

NextWork == GetAgentWork

SpecWork == InitWork /\ [][NextWork]_vars

(* The history near its cap: one agent has pulled with logging at the
   instants 1, 2, ..., n, with n nothing, or the cap, or one or two short of
   it; the other agent owns a task created at the last of these instants.
   Then come the commands that append to the history. *)
Prefill == {0, HistoryCap - 2, HistoryCap - 1, HistoryCap}

LoggedPulls(n) ==
    [k \in 1..n |-> [taskId |-> "pull", agentId |-> "frank",
                     timestamp |-> k, outcome |-> "none"]]

InitHistory ==
    /\ clock = 1
    /\ \E n \in Prefill :
           /\ history = LoggedPulls(n)
           /\ tasks = [t \in {"t1"} |-> CreatedTask("recurring", "nova", OneMinute, n)]
           /\ agents = [a \in Agents |->
                  IF a = "nova" THEN [NewAgent EXCEPT !.recurringTaskIds = <<"t1">>]
                  ELSE [NewAgent EXCEPT !.lastCheckIn = n]]
    /\ wakeState = NoWakeState
    /\ ops = 0
    /\ tick = NoTick
    /\ notified = NeverNotified
    /\ reply = NoReply
    /\ storage = NoStorage
    /\ config = NoConfig

NextHistory == UpdateAnyTask \/ CompleteTask \/ CheckIn \/ GetAgentWork

SpecHistory == InitHistory /\ [][NextHistory]_vars

(* The agents' configurations at the boundary of the idle threshold: each
   agent with or without a default mode, with no threshold of its own or
   one of 1m, 0m or a malformed one, and last seen never, just now, or the
   threshold (its own or the default one) ago, give or take a millisecond.
   One recurring task exists; the commands change tasks and thresholds. *)
ZeroMinutes == <<"0", "m">>

IdleThresholds == {NoText, OneMinute, ZeroMinutes, Malformed}

IdleAges == {0, 60000, 60001, 1800000, 1800001}

IdleAgent(mode, threshold, age) ==
    [NewAgent EXCEPT !.defaultMode = mode,
                     !.idleThreshold = threshold,
                     !.lastCheckIn = IF age = 0 THEN 0 ELSE Now - age]

InitIdle ==
    /\ clock = 1
    /\ tasks = [t \in {"t1"} |-> CreatedTask("recurring", "frank", OneMinute, Now - 60000)]
    /\ \E mode \in [Agents -> Modes], th \in [Agents -> IdleThresholds],
          age \in [Agents -> IdleAges] :
           agents = [a \in Agents |->
                        IF a = "frank"
                        THEN [IdleAgent(mode[a], th[a], age[a])
                                 EXCEPT !.recurringTaskIds = <<"t1">>]
                        ELSE IdleAgent(mode[a], th[a], age[a])]
    /\ Quiet

SetAnyIdleThreshold ==
    \E a \in Agents, th \in IdleThresholds \ {NoText} : setIdleThreshold(a, th)

NextIdle ==
    \/ GetIdleAgents
    \/ SetAnyIdleThreshold
    \/ PauseTask
    \/ ResumeTask
    \/ CheckIn

SpecIdle == InitIdle /\ [][NextIdle]_vars

(* The duration parser on its own: a recurring task whose cadence is any
   text of up to MaxDurationLen characters over digits, units, a sign, a
   decimal point and a letter, or one of a few longer texts; createTask
   stores whatever text it is given.  The parser is applied to the stored
   cadence. *)
MaxDurationLen == 3

DurationAlphabet == {"0", "1", "2", "s", "m", "h", "d", "-", ".", "x"}

LongTexts ==
    { Daily,
      <<"d", "a", "i", "l">>,
      <<"d", "a", "i", "l", "y", "s">>,
      <<"D", "a", "i", "l", "y">>,
      <<"1", "d", "a", "i", "l", "y">>,
      <<"1", "h", "3", "0", "m">>,
      <<"1", ".", "5", "h">>,
      <<"1", "0", "0", "0", "s">>,
      <<"0", "0", "0", "7", "m">>,
      <<"9", "0", "s">>,
      <<"5", "m", "s">> }

DurationTexts ==
    UNION {[1..n -> DurationAlphabet] : n \in 0..MaxDurationLen} \cup LongTexts

InitParse ==
    /\ clock = 1
    /\ \E d \in DurationTexts, owner \in Agents :
           /\ tasks = [t \in {"t1"} |-> CreatedTask("recurring", owner, d, Now)]
           /\ agents = [a \in {owner} |-> [NewAgent EXCEPT !.recurringTaskIds = <<"t1">>]]
    /\ Quiet

ParseCadence == \E t \in DOMAIN tasks : Query(parseDurationResult(tasks[t].cadence))

ParseCadenceSafe == \E t \in DOMAIN tasks : Query(parseDurationSafeResult(tasks[t].cadence))

NextParse == ParseCadence \/ ParseCadenceSafe

SpecParse == InitParse /\ [][NextParse]_vars

(* The duration formatter on its own.  generateContextMessage formats
   Date.now() - task.lastUpdate: one task last updated some time ago, the
   time around each change of unit and around whole and half units, at an
   instant late enough for ages of several days.  The task's cadence is a
   valid literal, for formatting what the parser makes of it. *)
FormatClock == 1500

FormatAges ==
    {q * 1000 + r : q \in {0, 1, 9, 10, 59, 60, 61, 90}, r \in {0, 1, 500, 999}}
    \cup {q * 60000 + r : q \in {1, 2, 59, 60, 61, 90, 119, 120}, r \in {0, 30000, 59999}}
    \cup {q * 3600000 + r : q \in {1, 23, 24, 25, 36, 47, 48}, r \in {0, 1800000, 3599999}}
    \cup {q * 86400000 + r : q \in {1, 2, 3, 4}, r \in {0, 43200000, 86399999}}

FormatLiterals ==
    { Daily,
      <<"0", "s">>, <<"5", "9", "s">>, <<"6", "0", "s">>, <<"9", "0", "s">>,
      <<"1", "m">>, <<"6", "0", "m">>, <<"0", "0", "7", "m">>,
      <<"1", "h">>, <<"2", "4", "h">>, <<"1", "d">> }

InitFormat ==
    /\ clock = FormatClock
    /\ \E ms \in FormatAges, x \in FormatLiterals :
           /\ tasks = [t \in {"t1"} |->
                  CreatedTask("recurring", "frank", x, Now - ms)]
           /\ agents = [a \in {"frank"} |-> [NewAgent EXCEPT !.recurringTaskIds = <<"t1">>]]
    /\ Quiet

FormatElapsed ==
    \E t \in DOMAIN tasks :
        Query([op |-> "formatDuration", threw |-> FALSE,
               ms |-> Now - tasks[t].lastUpdate,
               text |-> formatDuration(Now - tasks[t].lastUpdate)])

FormatParsed ==
    \E t \in DOMAIN tasks :
        Query([op |-> "formatDuration", threw |-> FALSE,
               ms |-> parseDuration(tasks[t].cadence),
               text |-> formatDuration(parseDuration(tasks[t].cadence))])

NextFormat == FormatElapsed \/ FormatParsed

SpecFormat == InitFormat /\ [][NextFormat]_vars

(* Storage objects of one process: each data file starts missing,
   unreadable or holding a state; then the objects are constructed, written
   through and read. *)
StoredTaskIds == {"t1", "t2"}
StoredStatuses == {"active", "paused"}
StoredCheckIns == {1, 2}

InitStorage ==
    /\ clock = 1
    /\ tasks = << >>
    /\ agents = << >>
    /\ history = << >>
    /\ wakeState = NoWakeState
    /\ ops = 0
    /\ tick = NoTick
    /\ notified = NeverNotified
    /\ reply = NoReply
    /\ \E files \in [Paths -> FileConditions] :
           storage = [NoStorage EXCEPT !.files = files]
    /\ config = NoConfig

NewStorage == \E i \in Objects, p \in Paths : newStorage(i, p)
StorageSaveTask ==
    \E i \in Objects, id \in StoredTaskIds, status \in StoredStatuses :
        storageSaveTask(i, id, status)
StorageSaveAgent ==
    \E i \in Objects, a \in {"frank"}, at \in StoredCheckIns : storageSaveAgent(i, a, at)
StorageAddHistoryEntry == \E i \in Objects : storageAddHistoryEntry(i, 2)
StorageGetTask == \E i \in Objects, id \in StoredTaskIds : storageGetTask(i, id)
StorageGetAllTasks == \E i \in Objects : storageGetAllTasks(i)
StorageGetActiveTasks == \E i \in Objects : storageGetActiveTasks(i)
StorageGetAgent == \E i \in Objects : storageGetAgent(i, "frank")
StorageGetAllAgents == \E i \in Objects : storageGetAllAgents(i)
StorageGetHistory == \E i \in Objects : storageGetHistory(i)

NextStorage ==
    \/ NewStorage
    \/ StorageSaveTask
    \/ StorageSaveAgent
    \/ StorageAddHistoryEntry
    \/ StorageGetTask
    \/ StorageGetAllTasks
    \/ StorageGetActiveTasks
    \/ StorageGetAgent
    \/ StorageGetAllAgents
    \/ StorageGetHistory

SpecStorage == InitStorage /\ [][NextStorage]_vars

(* The data files under the Storage objects of the manager's processes and
   the passes of the daemon. *)
RunDaemonOnFile == \E p \in Paths : runDaemonOnFile(p)

NextDaemonStore == NextStorage \/ RunDaemonOnFile

SpecDaemonStore == InitStorage /\ [][NextDaemonStore]_vars

(* Two Storage objects on one data file, as a CLI process and a server
   process have them: both were constructed on the file when it held
   nothing or a stored state, and each now writes and reads through its
   own object. *)
InitShared ==
    /\ clock = 1
    /\ tasks = << >>
    /\ agents = << >>
    /\ \E content \in {DEFAULT_STATE, SampleState} :
           storage = [default |-> DEFAULT_STATE,
                      files |-> [p \in Paths |->
                                    IF p = "p1" THEN [kind |-> "ok", content |-> content]
                                    ELSE [kind |-> "missing", content |-> DEFAULT_STATE]],
                      objects |-> [i \in Objects |->
                                    [path |-> "p1", shared |-> {}, own |-> content]]]
    /\ history = << >>
    /\ wakeState = NoWakeState
    /\ ops = 0
    /\ tick = NoTick
    /\ notified = NeverNotified
    /\ reply = NoReply
    /\ config = NoConfig

NextShared ==
    \/ StorageSaveTask
    \/ StorageSaveAgent
    \/ StorageAddHistoryEntry
    \/ StorageGetTask
    \/ StorageGetAgent
    \/ StorageGetAllAgents

SpecShared == InitShared /\ [][NextShared]_vars

(* Task creation under each configuration: the AWM constructed without a
   defaultStatusInterval or with one, and createTask called for each type
   with and without a statusInterval, at different instants. *)
ConfigArgs ==
    { NoConfig,
      [defaultStatusInterval |-> OneMinute, overdueThreshold |-> 0],
      [defaultStatusInterval |-> <<"1", "h">>, overdueThreshold |-> 3] }

CreateParams ==
    { [type |-> type, cadence |-> cadence, statusInterval |-> statusInterval] :
        type \in TaskTypes, cadence \in {NoText, OneMinute},
        statusInterval \in {NoText, <<"5", "m">>} }

InitCreate ==
    /\ clock = 1
    /\ tasks = << >>
    /\ agents = << >>
    /\ history = << >>
    /\ wakeState = NoWakeState
    /\ ops = 0
    /\ tick = NoTick
    /\ notified = NeverNotified
    /\ reply = NoReply
    /\ storage = NoStorage
    /\ config \in ConfigArgs

CreateWithAnyParams == \E in \in CreateParams, a \in Agents : createTask(in, a)

NextCreate == CreateWithAnyParams \/ StoreClock

SpecCreate == InitCreate /\ [][NextCreate]_vars

(* The wake engine after a first round of wakes.  Each agent owns a
   recurring task created at the first instant; the pass at the second
   instant reached it silently (its wake is pending), or visibly after the
   silent call failed, or not at all (both calls failed).  The cooldown of
   that round has just ended; passes go on for two more wake intervals,
   with a task updated in between. *)
MaxEscalateClock == 8

FirstRound == {"unreached", "silent", "fallback"}

TaskOf(a) == IF a = "frank" THEN "t1" ELSE "t2"

InitEscalate ==
    /\ clock = Len(Timeline)
    /\ tasks = [t \in {"t1", "t2"} |->
           CreatedTask("recurring", IF t = "t1" THEN "frank" ELSE "nova",
                       OneMinute, Timeline[1])]
    /\ agents = [a \in Agents |-> [NewAgent EXCEPT !.recurringTaskIds = <<TaskOf(a)>>]]
    /\ \E round \in [Agents -> FirstRound] :
           /\ wakeState =
                  [lastWake |-> [a \in {x \in Agents : round[x] # "unreached"} |->
                                    Timeline[2]],
                   pendingWakes |-> [a \in {x \in Agents : round[x] = "silent"} |->
                                    NewPendingWake(Timeline[2], <<TaskOf(a)>>, Timeline[1])]]
           /\ notified =
                  [a \in Agents |->
                      CASE round[a] = "unreached" -> NeverNotified[a]
                        [] round[a] = "silent" ->
                               [prev |-> 0, last |-> Timeline[2],
                                via |-> [silent |-> "ok", visible |-> "none"]]
                        [] round[a] = "fallback" ->
                               [prev |-> 0, last |-> Timeline[2],
                                via |-> [silent |-> "fail", visible |-> "ok"]]]
    /\ history = << >>
    /\ ops = 2
    /\ tick = NoTick
    /\ reply = NoReply
    /\ storage = NoStorage
    /\ config = NoConfig

EscalateClock ==
    /\ clock < MaxEscalateClock
    /\ clock' = clock + 1
    /\ tick' = [ran |-> FALSE]
    /\ reply' = NoReply
    /\ UNCHANGED <<tasks, agents, history, wakeState, ops, notified, storage, config>>

NextEscalate == Tick \/ UpdateTaskStatus \/ EscalateClock

SpecEscalate == InitEscalate /\ [][NextEscalate]_vars

----------------------------------------------------------------------------
(* What a state shows of the pass that just ran.  After a pass the store
   and the clock are those the pass read, so its agentTaskList is that of
   the state. *)

Ran == tick.ran
PassThrew == getOverdueTasksThrows
PassList == agentTaskList(Now)
Evaluated(a) == Ran /\ ~PassThrew /\ a \in DOMAIN PassList

PendingBefore(a) == a \in DOMAIN tick.pre.pendingWakes
PendingAfter(a) == a \in DOMAIN wakeState.pendingWakes
LastWakeOf(ws, a) == IF a \in DOMAIN ws.lastWake THEN ws.lastWake[a] ELSE 0
SameForAgent(a) ==
    /\ Opt(wakeState.lastWake, a) = Opt(tick.pre.lastWake, a)
    /\ Opt(wakeState.pendingWakes, a) = Opt(tick.pre.pendingWakes, a)
NoCall(a) == tick.calls[a].silent = "none" /\ tick.calls[a].visible = "none"

(* the greatest lastUpdate among the tasks ids, 0 for none *)
MaxLastUpdate(ids) ==
    IF ids = {} THEN 0
    ELSE CHOOSE m \in {tasks[t].lastUpdate : t \in ids} :
             \A t \in ids : tasks[t].lastUpdate <= m

(* a task of the pending wake's triggering set was updated after the wake's
   snapshot *)
TriggerUpdated(p) ==
    \E t \in Range(p.taskIds) : tasks[t].lastUpdate > p.lastTaskUpdate

----------------------------------------------------------------------------
(* C1: cooldown.  For every agent, two delivered notifications of either
   tier are at least MIN_WAKE_INTERVAL_MS apart, and a pass that finds the
   agent less than MIN_WAKE_INTERVAL_MS after its lastWake calls neither
   channel for it. *)
C1_Cooldown ==
    \A a \in Agents :
        /\ notified[a].prev # 0 =>
               notified[a].last - notified[a].prev >= MIN_WAKE_INTERVAL_MS
        /\ (Ran /\ Now - LastWakeOf(tick.pre, a) < MIN_WAKE_INTERVAL_MS) => NoCall(a)

(* Two passes four minutes apart: the agent, notified by the earlier one,
   still has overdue work in the later one and is not called. *)
C1_Witness ==
    \E a \in Agents :
        /\ Evaluated(a)
        /\ notified[a].last # 0
        /\ Now - notified[a].last = 240000
        /\ NoCall(a)

(* C2: escalation timeline.  With a pending wake sent at t = 0, the agent
   still overdue and no triggering task updated, the pass at t = 179,999
   makes no visible call and keeps the pending wake, and the pass at
   t = 180,001 makes the visible call and, when it succeeds, clears the
   pending wake and sets lastWake to the time of the pass. *)
C2_EscalationTimeline ==
    \A a \in Agents :
        (/\ Evaluated(a)
         /\ PendingBefore(a)
         /\ ~TriggerUpdated(tick.pre.pendingWakes[a])
         /\ latestTaskUpdate(PassList[a]) <= tick.pre.pendingWakes[a].lastTaskUpdate)
        =>
        LET sinceWake == Now - tick.pre.pendingWakes[a].wakeTime
        IN  /\ sinceWake = 179999 =>
                /\ tick.calls[a].visible = "none"
                /\ Opt(wakeState.pendingWakes, a) = Opt(tick.pre.pendingWakes, a)
            /\ sinceWake = 180001 =>
                /\ tick.calls[a].visible # "none"
                /\ tick.calls[a].visible = "ok" =>
                       /\ ~PendingAfter(a)
                       /\ LastWakeOf(wakeState, a) = Now

(* C3: acknowledgment timeline.  After a silent wake at t = 0 with snapshot
   S, a triggering task updated at t = 60,000 (past S), the pass at
   t = 61,000 ends with the agent's pending wake cleared and no visible
   call for it. *)
C3_AckTimeline ==
    \A a \in Agents :
        (/\ Ran
         /\ PendingBefore(a)
         /\ Now - tick.pre.pendingWakes[a].wakeTime = 61000
         /\ \E t \in Range(tick.pre.pendingWakes[a].taskIds) :
               /\ tasks[t].lastUpdate = tick.pre.pendingWakes[a].wakeTime + 60000
               /\ tasks[t].lastUpdate > tick.pre.pendingWakes[a].lastTaskUpdate)
        => (~PendingAfter(a) /\ tick.calls[a].visible = "none")

(* C4: a responded wake is never escalated.  A pass that evaluates, past the
   cooldown, an agent holding a pending wake one of whose triggering tasks
   has lastUpdate greater than the snapshot clears the pending wake, makes
   no visible call and leaves lastWake unchanged. *)
C4_RespondedNeverEscalated ==
    \A a \in Agents :
        (/\ Evaluated(a)
         /\ PendingBefore(a)
         /\ ~CooldownActive(Now, LastWakeOf(tick.pre, a))
         /\ TriggerUpdated(tick.pre.pendingWakes[a]))
        => /\ ~PendingAfter(a)
           /\ tick.calls[a].visible = "none"
           /\ LastWakeOf(wakeState, a) = LastWakeOf(tick.pre, a)

(* C5: stale cleanup.  At the end of every completed pass no agent holds a
   pending wake unless it had overdue tasks or idle eligibility in that
   pass. *)
C5_StaleCleanup ==
    (Ran /\ ~PassThrew) =>
        \A a \in Agents : PendingAfter(a) => a \in DOMAIN PassList

(* C6: a pending wake is created or modified only by a pass in which the
   silent call for that agent succeeded, and then with wakeTime the time of
   the pass, lastTaskUpdate the greatest lastUpdate of the agent's
   triggering tasks (0 when there is none) and taskIds those tasks. *)
C6_PendingOnlyOnSilentSuccess ==
    [][\A a \in Agents :
         (/\ a \in DOMAIN wakeState'.pendingWakes
          /\ Opt(wakeState'.pendingWakes, a) # Opt(wakeState.pendingWakes, a))
         => /\ tick'.ran
            /\ tick'.calls[a].silent = "ok"
            /\ a \in DOMAIN PassList
            /\ wakeState'.pendingWakes[a] =
                   [wakeTime |-> Now, taskIds |-> PassList[a],
                    lastTaskUpdate |-> MaxLastUpdate(Range(PassList[a]))]]_vars

(* A silent wake whose snapshot is the later of two different lastUpdate
   values, and an idle-only one. *)
C6_Witness ==
    \E a \in Agents :
        /\ Ran /\ tick.calls[a].silent = "ok" /\ PendingAfter(a)
        /\ LET p == wakeState.pendingWakes[a]
           IN  /\ Len(p.taskIds) = 2
               /\ tasks[p.taskIds[1]].lastUpdate # tasks[p.taskIds[2]].lastUpdate
               /\ p.lastTaskUpdate = MaxLastUpdate(Range(p.taskIds))

(* C7: silent-channel failure.  When an agent past the cooldown has no
   pending wake and the silent call fails, the same pass makes the visible
   call; if that succeeds lastWake is the time of the pass and no pending
   wake is recorded, and if it fails lastWake and the pending wakes are
   unchanged for the agent. *)
C7_SilentFailureFallback ==
    \A a \in Agents :
        (Ran /\ tick.calls[a].silent = "fail") =>
            /\ ~PendingBefore(a)
            /\ tick.calls[a].visible # "none"
            /\ tick.calls[a].visible = "ok" =>
                   (LastWakeOf(wakeState, a) = Now /\ ~PendingAfter(a))
            /\ tick.calls[a].visible = "fail" => SameForAgent(a)

C7_Witness ==
    \E a \in Agents :
        /\ Ran /\ tick.calls[a].silent = "fail" /\ tick.calls[a].visible = "ok"
        /\ LastWakeOf(tick.pre, a) # 0

(* C8: escalation failure.  When a pass tries to escalate a pending wake and
   the visible call fails, the agent's pending wake and lastWake are left
   as they were (so that a later pass finds the same conditions and tries
   again). *)
C8_EscalationFailureKeepsState ==
    \A a \in Agents :
        (Ran /\ PendingBefore(a) /\ tick.calls[a].visible = "fail") =>
            /\ SameForAgent(a)
            /\ tick.calls[a].silent = "none"

C8_Witness ==
    \E a \in Agents :
        Ran /\ PendingBefore(a) /\ tick.calls[a].visible = "fail"

(* C9: guaranteed visibility.  While no task is ever updated, an agent's
   pending wake for overdue tasks, sent early enough for the cooldown to end
   within the horizon, leads to a pass that delivers the visible
   notification and leaves no pending wake for the agent; the only other
   outcome is that the wake was counted as answered because of a task
   created since, and the wake sent in its place came too late for the
   horizon. *)
Unanswered(a) ==
    /\ PendingAfter(a)
    /\ wakeState.pendingWakes[a].taskIds # <<>>
    /\ wakeState.pendingWakes[a].wakeTime + MIN_WAKE_INTERVAL_MS <= TimeAt(MaxClock)
BeyondHorizon(a) ==
    /\ PendingAfter(a)
    /\ wakeState.pendingWakes[a].wakeTime + MIN_WAKE_INTERVAL_MS > TimeAt(MaxClock)
VisiblyNotified(a) == Ran /\ tick.calls[a].visible = "ok" /\ ~PendingAfter(a)

C9_GuaranteedVisibility ==
    \A a \in Agents : Unanswered(a) ~> (VisiblyNotified(a) \/ BeyondHorizon(a))

(* An escalation of a wake none of whose tasks was touched since. *)
C9_Witness ==
    \E a \in Agents :
        /\ VisiblyNotified(a)
        /\ PendingBefore(a)
        /\ tick.pre.pendingWakes[a].taskIds # <<>>
        /\ tick.pre.pendingWakes[a].wakeTime + MIN_WAKE_INTERVAL_MS <= Now
        /\ \A t \in DOMAIN tasks :
              tasks[t].owner = a => tasks[t].lastUpdate <= tick.pre.pendingWakes[a].lastTaskUpdate

(* C10: a pending wake is cleared only because a task of its triggering set
   was updated after the snapshot, or a visible escalation succeeded, or the
   agent no longer has overdue work or idle eligibility. *)
C10_ClearedOnlyForThreeReasons ==
    \A a \in Agents :
        (Ran /\ ~PassThrew /\ PendingBefore(a) /\ ~PendingAfter(a)) =>
            \/ TriggerUpdated(tick.pre.pendingWakes[a])
            \/ tick.calls[a].visible = "ok"
            \/ a \notin DOMAIN PassList

----------------------------------------------------------------------------
(* What a state shows of the query that just ran.  A query changes neither
   the store nor the clock, so the other queries evaluated in the state
   are evaluated at the same instant on the same store. *)

Asked(op) == reply.op = op
Returned(op) == reply.op = op /\ ~reply.threw
ContextOf(a) == agentContext(a, Now)
FlaggedByContext(t) ==
    LET ctx == ContextOf(tasks[t].owner)
    IN  /\ ~ctx.threw
        /\ t \in Range(ctx.overdueRecurring) \cup Range(ctx.pendingStatusCheck)
FlaggedByWork(t) ==
    \E i \in DOMAIN agentWork(tasks[t].owner, Now).tasks :
        agentWork(tasks[t].owner, Now).tasks[i].id = t

(* C11: with overdueThreshold 2, every task that getOverdueTasks returns
   (recurring or project) is, at the same instant, in overdueRecurring or
   pendingStatusCheck of getAgentContext for the task's owner. *)
C11_MonitoringImpliesImmediate ==
    Returned("getOverdueTasks") =>
        \A t \in Range(reply.recurring) \cup Range(reply.statusChecks) :
            FlaggedByContext(t)

(* C12: the overdue boundary is strict.  For an active task with a valid
   interval, getAgentContext and getAgentWork, asked for the task's owner,
   do not report it when now - lastUpdate equals the interval and report it
   one millisecond later; getOverdueTasks does not report it at the interval
   times 2 and reports it one millisecond later.  (getAgentWork lists
   recurring tasks only.) *)
IntervalOf(t) ==
    LET text == IF tasks[t].type = "recurring"
                THEN tasks[t].cadence ELSE tasks[t].statusInterval
    IN  (CHOOSE iv \in Intervals : iv.text = text).ms
ElapsedOf(t) == Now - tasks[t].lastUpdate
InWork(t) == \E i \in DOMAIN reply.tasks : reply.tasks[i].id = t
InContext(t) == t \in Range(reply.overdueRecurring) \cup Range(reply.pendingStatusCheck)
InMonitoring(t) == t \in Range(reply.recurring) \cup Range(reply.statusChecks)

C12_StrictBoundary ==
    \A t \in DOMAIN tasks :
        /\ (Asked("getAgentContext") /\ reply.agentId = tasks[t].owner) =>
              /\ ~reply.threw
              /\ ElapsedOf(t) = IntervalOf(t) => ~InContext(t)
              /\ ElapsedOf(t) = IntervalOf(t) + 1 => InContext(t)
        /\ (Asked("getAgentWork") /\ reply.agentId = tasks[t].owner
                                  /\ tasks[t].type = "recurring") =>
              /\ ElapsedOf(t) = IntervalOf(t) => ~InWork(t)
              /\ ElapsedOf(t) = IntervalOf(t) + 1 => InWork(t)
        /\ Asked("getOverdueTasks") =>
              /\ ~reply.threw
              /\ ElapsedOf(t) = IntervalOf(t) * 2 => ~InMonitoring(t)
              /\ ElapsedOf(t) = IntervalOf(t) * 2 + 1 => InMonitoring(t)

(* A task ninety seconds and one millisecond old with cadence 90s, reported
   by the pull. *)
C12_Witness ==
    \E t \in DOMAIN tasks :
        /\ Asked("getAgentWork") /\ reply.agentId = tasks[t].owner
        /\ ElapsedOf(t) = 90001
        /\ IntervalOf(t) = 90000
        /\ InWork(t)

(* C13: a task that is paused, completed or abandoned, or a recurring task
   without cadence, or a project task without statusInterval, is reported
   overdue by none of getOverdueTasks, getAgentContext and getAgentWork, and
   is in no agent's list of the daemon. *)
NotEvaluated(t) ==
    \/ tasks[t].status \in {"paused", "completed", "abandoned"}
    \/ tasks[t].type = "recurring" /\ tasks[t].cadence = NoText
    \/ tasks[t].type = "project" /\ tasks[t].statusInterval = NoText

C13_OnlyActiveWithInterval ==
    \A t \in DOMAIN tasks :
        NotEvaluated(t) =>
            /\ ~FlaggedByContext(t)
            /\ ~FlaggedByWork(t)
            /\ ~getOverdueTasksThrows =>
                  /\ t \notin Range(overdueRecurring(Now, DefaultOverdueThreshold))
                  /\ t \notin Range(overdueStatusChecks(Now, DefaultOverdueThreshold))
                  /\ \A a \in DOMAIN PassList : t \notin Range(PassList[a])

(* The monitor has just answered without a paused task whose cadence ran
   out more than twice over. *)
C13_Witness ==
    /\ Returned("getOverdueTasks")
    /\ \E t \in DOMAIN tasks :
          /\ tasks[t].status = "paused"
          /\ tasks[t].cadence = OneMinute
          /\ ElapsedOf(t) > 2 * 60000
          /\ ~InMonitoring(t)

(* C14: a malformed duration never aborts an evaluation.  getOverdueTasks,
   getAgentContext and getIdleAgents return normally whatever the cadence,
   statusInterval or idleThreshold strings in the store, and getOverdueTasks
   and getAgentWork still report the well-formed tasks that are overdue. *)
C14_MalformedNeverAborts ==
    /\ (Asked("getOverdueTasks") \/ Asked("getAgentContext") \/ Asked("getIdleAgents"))
           => ~reply.threw
    /\ Asked("getOverdueTasks") =>
           \A t \in DOMAIN tasks :
               (/\ tasks[t].status = "active"
                /\ tasks[t].cadence = OneMinute \/ tasks[t].statusInterval = OneMinute
                /\ ElapsedOf(t) > 2 * 60000)
               => InMonitoring(t)
    /\ Asked("getAgentWork") =>
           \A t \in DOMAIN tasks :
               (/\ tasks[t].status = "active"
                /\ tasks[t].owner = reply.agentId
                /\ tasks[t].cadence = OneMinute
                /\ ElapsedOf(t) > 60000)
               => InWork(t)

(* C15: getAgentWork returns the agent's overdue recurring tasks, each with
   overdueMins = floor((now - lastUpdate) / 60000), most overdue first, and
   tasks with equal overdueMins in the order of the agent's
   recurringTaskIds. *)
PlaceOf(a, t) ==
    CHOOSE i \in DOMAIN agents[a].recurringTaskIds : agents[a].recurringTaskIds[i] = t
DueForWork(a) ==
    {t \in DOMAIN tasks :
        /\ t \in Range(agents[a].recurringTaskIds)
        /\ tasks[t].status = "active"
        /\ tasks[t].cadence # NoText
        /\ ElapsedOf(t) > IntervalOf(t)}

C15_WorkOrder ==
    Asked("getAgentWork") =>
        LET out == reply.tasks
        IN  /\ {out[i].id : i \in DOMAIN out} = DueForWork(reply.agentId)
            /\ Len(out) = Cardinality(DueForWork(reply.agentId))
            /\ \A i \in DOMAIN out : out[i].overdueMins = ElapsedOf(out[i].id) \div 60000
            /\ \A i, j \in DOMAIN out :
                  i < j =>
                     /\ out[i].overdueMins >= out[j].overdueMins
                     /\ out[i].overdueMins = out[j].overdueMins =>
                            PlaceOf(reply.agentId, out[i].id) < PlaceOf(reply.agentId, out[j].id)

(* The tasks are 5, 40 and 12 minutes overdue in stored order and come out
   as 40, 12, 5. *)
C15_Witness ==
    /\ Asked("getAgentWork")
    /\ reply.tasks = << [id |-> "t2", overdueMins |-> 40],
                        [id |-> "t3", overdueMins |-> 12],
                        [id |-> "t1", overdueMins |-> 5] >>

(* C16: getAgentWork includes the idle item exactly when the agent has a
   default mode, whether or not a task is overdue; hasWork is true exactly
   when a task is overdue or the idle item is present; the nothing-to-do
   message is produced exactly when there is neither, and the idle part of
   the message comes after the overdue part. *)
C16_IdleItemAndHasWork ==
    Asked("getAgentWork") =>
        LET mode == agents[reply.agentId].defaultMode
        IN  /\ reply.idleTask = mode
            /\ reply.hasWork <=> (reply.tasks # <<>> \/ mode # NoMode)
            /\ reply.message =
                  IF reply.tasks = <<>> /\ mode = NoMode THEN <<"nothing to do">>
                  ELSE IF reply.tasks = <<>> THEN <<"idle mode">>
                  ELSE IF mode = NoMode THEN <<"do this now">>
                  ELSE <<"do this now", "idle mode">>

(* The first command is a pull by an agent without stored configuration:
   it gets the nothing-to-do message. *)
C16_Witness ==
    /\ Asked("getAgentWork")
    /\ reply.agentId = "nova"
    /\ ops = 1
    /\ ~reply.hasWork
    /\ reply.message = <<"nothing to do">>

(* C17: every getAgentWork call records a check-in.  After the call the
   agent has a stored configuration whose lastCheckIn is the time of the
   pull; it was created with empty recurringTaskIds if there was none, and
   otherwise its other fields are as before; no other agent and no task
   changes. *)
PullStep == reply'.op = "getAgentWork" /\ ops' # ops

C17_PullRecordsCheckIn ==
    [][PullStep =>
         LET a == reply'.agentId
         IN  /\ DOMAIN agents' = DOMAIN agents \cup {a}
             /\ agents'[a].lastCheckIn = Now
             /\ IF a \in DOMAIN agents
                THEN /\ agents'[a].defaultMode = agents[a].defaultMode
                     /\ agents'[a].activeTaskId = agents[a].activeTaskId
                     /\ agents'[a].recurringTaskIds = agents[a].recurringTaskIds
                     /\ agents'[a].idleThreshold = agents[a].idleThreshold
                ELSE /\ agents'[a].defaultMode = NoMode
                     /\ agents'[a].activeTaskId = NoTask
                     /\ agents'[a].recurringTaskIds = <<>>
                     /\ agents'[a].idleThreshold = NoText
             /\ \A b \in DOMAIN agents \ {a} : agents'[b] = agents[b]
             /\ tasks' = tasks]_vars

(* A pull by an agent that has a recurring task and a default mode: both
   are still there, and lastCheckIn is the time of the pull. *)
C17_Witness ==
    /\ Asked("getAgentWork")
    /\ LET agent == agents[reply.agentId]
       IN  /\ agent.lastCheckIn = Now
           /\ agent.recurringTaskIds # <<>>
           /\ agent.defaultMode # NoMode

(* C18: a task's lastUpdate never decreases, and a step changes it only if
   the step is updateTaskStatus, completeTask, pauseTask, resumeTask or
   abandonTask on that task. *)
C18_LastUpdateMonotonic ==
    [][\A t \in DOMAIN tasks :
          /\ t \in DOMAIN tasks'
          /\ tasks'[t].lastUpdate >= tasks[t].lastUpdate
          /\ tasks'[t].lastUpdate # tasks[t].lastUpdate =>
                \/ updateTaskStatus(t, "success")
                \/ completeTask(t)
                \/ pauseTask(t)
                \/ resumeTask(t)
                \/ abandonTask(t)]_vars

(* A task paused some time after it was created: its lastUpdate moved. *)
C18_Witness ==
    \E t \in DOMAIN tasks :
        /\ tasks[t].status = "paused"
        /\ tasks[t].lastUpdate > tasks[t].createdAt
        /\ \E u \in DOMAIN tasks : u # t /\ tasks[u].lastUpdate = tasks[u].createdAt

(* C19: an agent's activeTaskId, if set, names an existing project task
   owned by that agent that is neither completed nor abandoned; completing
   or abandoning a task clears the activeTaskId of the agent whose active
   task it is and leaves every other activeTaskId unchanged. *)
ActiveTaskValid ==
    \A a \in DOMAIN agents :
        agents[a].activeTaskId # NoTask =>
            /\ agents[a].activeTaskId \in DOMAIN tasks
            /\ tasks[agents[a].activeTaskId].type = "project"
            /\ tasks[agents[a].activeTaskId].owner = a
            /\ tasks[agents[a].activeTaskId].status \notin {"completed", "abandoned"}

C19_ActiveTaskReference ==
    [][/\ ActiveTaskValid'
       /\ \A t \in DOMAIN tasks :
             (completeTask(t) \/ abandonTask(t)) =>
                 \A a \in DOMAIN agents :
                     agents'[a].activeTaskId =
                         IF agents[a].activeTaskId = t THEN NoTask
                         ELSE agents[a].activeTaskId]_vars

(* An agent with two projects: the older one was abandoned, the newer one is
   still its active task. *)
C19_Witness ==
    \E a \in DOMAIN agents :
        /\ agents[a].activeTaskId = "t2"
        /\ tasks["t1"].owner = a
        /\ tasks["t1"].type = "project"
        /\ tasks["t1"].status = "abandoned"

(* C20: the history is bounded and keeps arrival order.  It never holds
   more than 1000 entries; a step that appends an entry (updateTaskStatus,
   completeTask, checkIn with a message, a logged pull) puts it last, keeps
   the entries before it in their order, and drops only the oldest one, and
   only when the cap would be exceeded. *)
Appends ==
    \/ \E t \in DOMAIN tasks : updateTaskStatus(t, "success") \/ completeTask(t)
    \/ \E a \in Agents : checkIn(a, TRUE) \/ getAgentWork(a, TRUE)

C20_HistoryBounded ==
    [][/\ Len(history') <= HistoryCap
       /\ history' # history => Appends
       /\ Appends =>
             LET n == Len(history)
                 m == Len(history')
             IN  /\ m = IF n + 1 > HistoryCap THEN HistoryCap ELSE n + 1
                 /\ history'[m].timestamp = Now
                 /\ history'[m].taskId \in DOMAIN tasks \cup {"checkin", "pull"}
                 /\ \A i \in 1..(m - 1) : history'[i] = history[i + (n + 1 - m)]]_vars

(* The 1001st entry has just arrived: the history holds entries 2 to 1001. *)
C20_Witness ==
    /\ ops = 1
    /\ Len(history) = HistoryCap
    /\ history[1].timestamp = 2
    /\ history[HistoryCap - 1].timestamp = HistoryCap
    /\ history[HistoryCap].timestamp = Now

(* C21: idle classification.  getIdleAgents never returns an agent without
   a default mode; an agent with a default mode whose idleThreshold, when
   set, is a duration is returned exactly when now - lastCheckIn (0 if it
   never checked in) is strictly greater than that threshold, or than the
   default 30m when it has none; the tasks play no part. *)
ThresholdMs(text) ==
    CASE text = NoText -> 1800000
      [] text = OneMinute -> 60000
      [] text = ZeroMinutes -> 0

C21_IdleClassification ==
    Asked("getIdleAgents") =>
        /\ ~reply.threw
        /\ \A a \in reply.idle : a \in DOMAIN agents /\ agents[a].defaultMode # NoMode
        /\ \A a \in DOMAIN agents :
              (agents[a].defaultMode # NoMode /\ agents[a].idleThreshold # Malformed) =>
                  (a \in reply.idle <=>
                       Now - agents[a].lastCheckIn > ThresholdMs(agents[a].idleThreshold))

(* C22: parseDuration maps every literal <digits><unit>, unit one of s, m,
   h, d, to the number the digits denote times 1000, 60000, 3600000 or
   86400000, and the literal daily to 86400000; on every other text (empty,
   signed, decimal, unknown unit, combined units) it throws the
   invalid-duration error and returns no number. *)
IsLiteral(x) ==
    /\ Len(x) >= 2
    /\ x[Len(x)] \in {"s", "m", "h", "d"}
    /\ \A i \in 1..(Len(x) - 1) :
          x[i] \in {"0", "1", "2", "3", "4", "5", "6", "7", "8", "9"}

RECURSIVE Pow10(_)
Pow10(k) == IF k = 0 THEN 1 ELSE 10 * Pow10(k - 1)

RECURSIVE Denoted(_)
Denoted(ds) ==
    IF ds = <<>> THEN 0
    ELSE DigitVal(ds[1]) * Pow10(Len(ds) - 1) + Denoted(Tail(ds))

MsPerUnit == [s |-> 1000, m |-> 60000, h |-> 3600000, d |-> 86400000]

C22_ParseDuration ==
    Asked("parseDuration") =>
        LET x == reply.text
        IN  IF IsLiteral(x)
            THEN /\ ~reply.threw
                 /\ reply.value = Denoted(SubSeq(x, 1, Len(x) - 1)) * MsPerUnit[x[Len(x)]]
            ELSE IF x = <<"d", "a", "i", "l", "y">>
            THEN ~reply.threw /\ reply.value = 86400000
            ELSE reply.threw

(* Twenty-two days: 1,900,800,000 ms. *)
C22_Witness ==
    /\ Asked("parseDuration")
    /\ reply.text = <<"2", "2", "d">>
    /\ ~reply.threw
    /\ reply.value = 1900800000

(* C23: formatDuration is floor-based and lossy.  For every ms >= 0 the
   result is the digits of an integer with one unit: floor(ms / 1000) s
   below 60 s, floor(ms / 60000) m below 60 min, floor(ms / 3600000) h below
   24 h, floor(ms / 86400000) d otherwise; parsing the result succeeds and
   gives at most ms, less than one such unit short of it. *)
ExpectedUnit(ms) ==
    IF ms < 60000 THEN "s"
    ELSE IF ms < 3600000 THEN "m"
    ELSE IF ms < 86400000 THEN "h"
    ELSE "d"

Canonical(x) == IsLiteral(x) /\ (Len(x) = 2 \/ x[1] # "0")

C23_FormatDuration ==
    Asked("formatDuration") =>
        LET ms == reply.ms
            x == reply.text
            unit == ExpectedUnit(ms)
        IN  /\ Canonical(x)
            /\ x[Len(x)] = unit
            /\ Denoted(SubSeq(x, 1, Len(x) - 1)) * MsPerUnit[unit] <= ms
            /\ ms < (Denoted(SubSeq(x, 1, Len(x) - 1)) + 1) * MsPerUnit[unit]
            /\ parseDuration(x) # InvalidDuration
            /\ parseDuration(x) <= ms
            /\ ms - parseDuration(x) < MsPerUnit[unit]

(* The cadence 90s parses to 90,000 ms, which formats as 1m: not the text
   that was parsed, and 30,000 ms short of it. *)
C23_Witness ==
    /\ Asked("formatDuration")
    /\ reply.ms = 90000
    /\ reply.text = <<"1", "m">>
    /\ \E t \in DOMAIN tasks :
          /\ tasks[t].cadence = <<"9", "0", "s">>
          /\ parseDuration(tasks[t].cadence) = reply.ms
          /\ reply.text # tasks[t].cadence

(* C24: updateTaskStatus, completeTask, pauseTask, resumeTask and
   abandonTask, called with a task id that is not in the store, return the
   absent result without raising and leave every task, every agent
   configuration and the history as they were. *)
TaskCommands ==
    {"updateTaskStatus", "completeTask", "pauseTask", "resumeTask", "abandonTask"}

C24_UnknownTaskId ==
    [][(reply'.op \in TaskCommands /\ ops' # ops /\ reply'.taskId \notin DOMAIN tasks) =>
           /\ ~reply'.threw
           /\ reply'.task = NoTask
           /\ tasks' = tasks
           /\ agents' = agents
           /\ history' = history]_vars

(* completeTask on an unknown id, in a store that holds an active project
   and its owner's configuration: both are as they were. *)
C24_Witness ==
    /\ reply.op = "completeTask"
    /\ reply.taskId \notin DOMAIN tasks
    /\ reply.task = NoTask
    /\ history = <<>>
    /\ \E a \in DOMAIN agents :
          /\ agents[a].activeTaskId \in DOMAIN tasks
          /\ tasks[agents[a].activeTaskId].status = "active"

(* C25: cold-start fallback.  A Storage constructed on a data file that is
   missing or unreadable starts with the empty default state: no tasks, no
   agents, an empty history; also when another Storage of the process fell
   back to the default state before and has saved tasks, agents or history
   since. *)
C25_ColdStartEmpty ==
    (Asked("Storage") /\ reply.found \in {"missing", "unreadable"}) =>
        /\ reply.state.tasks = << >>
        /\ reply.state.agents = << >>
        /\ reply.state.history = << >>

(* C26: fresh reads.  Every read through a Storage (getTask, getAllTasks,
   getActiveTasks, getAgent, getAllAgents, getHistory) returns what the
   data file holds at that moment, writes made through another Storage on
   the same file included. *)
StorageReads ==
    {"getTask", "getAllTasks", "getActiveTasks", "getAgent", "getAllAgents", "getHistory"}

FileOf(i) == storage.files[storage.objects[i].path]

Persisted(op, key, content) ==
    CASE op = "getTask" -> IF key \in DOMAIN content.tasks THEN <<content.tasks[key]>> ELSE <<>>
      [] op = "getAllTasks" -> content.tasks
      [] op = "getActiveTasks" -> {t \in DOMAIN content.tasks : content.tasks[t] = "active"}
      [] op = "getAgent" -> IF key \in DOMAIN content.agents THEN <<content.agents[key]>> ELSE <<>>
      [] op = "getAllAgents" -> content.agents
      [] op = "getHistory" -> content.history

C26_FreshReads ==
    (reply.op \in StorageReads /\ FileOf(reply.object).kind = "ok") =>
        reply.result = Persisted(reply.op, reply.key, FileOf(reply.object).content)

(* C27: createTask gives a new project task the configured
   defaultStatusInterval (15m when none is configured) when no
   statusInterval is passed, and the passed value otherwise; a new recurring
   or default task created without a statusInterval has none; every new
   task starts active with lastUpdate = createdAt, the time of the call. *)
C27_CreateDefaults ==
    Asked("createTask") =>
        LET t == tasks[reply.task]
            passed == reply.params.statusInterval
        IN  /\ t.type = reply.params.type
            /\ t.status = "active"
            /\ t.lastUpdate = t.createdAt
            /\ t.createdAt = Now
            /\ passed # NoText => t.statusInterval = passed
            /\ (passed = NoText /\ t.type = "project") =>
                   t.statusInterval =
                       IF config.defaultStatusInterval # NoText
                       THEN config.defaultStatusInterval
                       ELSE <<"1", "5", "m">>
            /\ (passed = NoText /\ t.type # "project") => t.statusInterval = NoText

(* With nothing configured, a second task is created some time after the
   first: a project without statusInterval, which gets 15m. *)
C27_Witness ==
    /\ Asked("createTask")
    /\ config = NoConfig
    /\ reply.task = "t2"
    /\ reply.params.type = "project"
    /\ reply.params.statusInterval = NoText
    /\ tasks["t2"].statusInterval = <<"1", "5", "m">>
    /\ tasks["t2"].createdAt > tasks["t1"].createdAt

(* C28: within one pass, an agent for which both channels fail does not
   affect the other agents of the pass.  Each of them is left exactly as
   the loop body leaves it when run on the wake state the pass loaded, with
   the outcomes of its own channel calls: same calls, same lastWake, same
   pending wake; and the pass goes on to its end, the stale cleanup. *)
BothFailed(a) == Ran /\ tick.calls[a].silent = "fail" /\ tick.calls[a].visible = "fail"

Observed(b) ==
    [lw |-> Opt(wakeState.lastWake, b), pw |-> Opt(wakeState.pendingWakes, b),
     silent |-> tick.calls[b].silent, visible |-> tick.calls[b].visible]

Alone(b, fetchOk, postOk) ==
    LET r == EvalAgent(b, PassList[b], getIdleAgents(Now, DefaultIdleThreshold),
                       tick.pre, Now, fetchOk, postOk)
    IN  [lw |-> r.lw, pw |-> r.pw, silent |-> r.silent, visible |-> r.visible]

C28_FailureIsolated ==
    \A a \in Agents :
        BothFailed(a) =>
            /\ ~PassThrew
            /\ \A b \in (DOMAIN PassList) \ {a} :
                  /\ \E fetchOk, postOk \in BOOLEAN : Observed(b) = Alone(b, fetchOk, postOk)
                  /\ tick.calls[b].silent = "ok" => Observed(b) = Alone(b, TRUE, TRUE)
            /\ \A c \in Agents : PendingAfter(c) => c \in DOMAIN PassList

(* Both channels fail for frank; nova, also overdue, gets its silent wake in
   the same pass. *)
C28_Witness ==
    /\ BothFailed("frank")
    /\ "nova" \in DOMAIN PassList
    /\ tick.calls["nova"].silent = "ok"
    /\ PendingAfter("nova")
    /\ wakeState.lastWake["nova"] = Now
    /\ ~PendingAfter("frank")

(* C29: the wake state is loaded once by a pass that gets to evaluate, never
   twice, and written at its end exactly when the pass changed lastWake or pendingWakes for some agent,
   the file then holding the changed state.  A pass in which every agent is
   skipped by the cooldown, or is still within grace, or has all its channel
   calls fail, and in which no stale pending wake is removed, writes
   nothing. *)
Uneventful(a) ==
    \/ CooldownActive(Now, LastWakeOf(tick.pre, a))
    \/ /\ PendingBefore(a)
       /\ ~TriggerUpdated(tick.pre.pendingWakes[a])
       /\ latestTaskUpdate(PassList[a]) <= tick.pre.pendingWakes[a].lastTaskUpdate
       /\ Now - tick.pre.pendingWakes[a].wakeTime < ESCALATION_GRACE_MS
    \/ /\ ~NoCall(a)
       /\ tick.calls[a].silent # "ok"
       /\ tick.calls[a].visible # "ok"

C29_SavedIffChanged ==
    Ran =>
        /\ tick.loads <= 1
        /\ ~PassThrew => tick.loads = 1
        /\ tick.saved <=> \E a \in Agents :
                              \/ Opt(tick.mem.lastWake, a) # Opt(tick.pre.lastWake, a)
                              \/ Opt(tick.mem.pendingWakes, a) # Opt(tick.pre.pendingWakes, a)
        /\ wakeState = IF tick.saved THEN tick.mem ELSE tick.pre
        /\ (/\ \A a \in DOMAIN PassList : Uneventful(a)
            /\ \A a \in Agents : PendingBefore(a) => a \in DOMAIN PassList)
           => (~tick.saved /\ wakeState = tick.pre)

(* A pass that wrote nothing: one agent, silently woken a minute ago, is
   within grace (and within the cooldown), both channels failed for the
   other. *)
C29_Witness ==
    /\ Ran
    /\ ~tick.saved
    /\ tick.loads = 1
    /\ \E a, b \in DOMAIN PassList :
          /\ PendingBefore(a) /\ NoCall(a)
          /\ Now - tick.pre.pendingWakes[a].wakeTime < ESCALATION_GRACE_MS
          /\ BothFailed(b)

(* C30: the pull queue skips malformed cadences.  A recurring task whose
   cadence is not a valid duration literal is never in the task list that
   getAgentWork returns, whatever its lastUpdate, while the agent's other
   tasks are listed exactly when they are active and past their cadence. *)
ValidCadence(t) == IsLiteral(tasks[t].cadence) \/ tasks[t].cadence = <<"d", "a", "i", "l", "y">>

C30_PullSkipsMalformed ==
    Asked("getAgentWork") =>
        \A t \in DOMAIN tasks :
            (tasks[t].owner = reply.agentId /\ tasks[t].type = "recurring") =>
                IF ValidCadence(t)
                THEN InWork(t) <=> (/\ tasks[t].status = "active"
                                    /\ tasks[t].cadence = OneMinute
                                    /\ ElapsedOf(t) > 60000)
                ELSE ~InWork(t)


(* C31: after a successful escalation of an agent at time e the agent holds
   no pending wake and its lastWake is e, up to its next notification; the
   next pass that makes a call for the agent runs at e + MIN_WAKE_INTERVAL_MS
   or later and makes the silent call first, the visible call only when the
   silent one failed in that pass. *)
C31_QuiescentAfterEscalation ==
    \A a \in Agents :
        /\ notified[a].via.visible = "ok" =>
               /\ ~PendingAfter(a)
               /\ LastWakeOf(wakeState, a) = notified[a].last
        /\ (Ran /\ ~NoCall(a) /\ tick.told[a].via.visible = "ok") =>
               /\ Now >= tick.told[a].last + MIN_WAKE_INTERVAL_MS
               /\ tick.calls[a].silent # "none"
               /\ tick.calls[a].visible # "none" => tick.calls[a].silent = "fail"

(* The pending wake of the first round was escalated when its cooldown
   ended; one wake interval later the agent, still overdue, gets a silent
   wake. *)
C31_Witness ==
    \E a \in Agents :
        /\ Ran
        /\ tick.told[a].via = [silent |-> "none", visible |-> "ok"]
        /\ tick.told[a].last = Timeline[6]
        /\ tick.told[a].prev = Timeline[2]
        /\ Now = tick.told[a].last + MIN_WAKE_INTERVAL_MS
        /\ tick.calls[a] = [silent |-> "ok", visible |-> "none"]
        /\ PendingAfter(a)


(* C32: in every state of the store, each agent's recurringTaskIds holds no
   id twice and holds exactly the ids of the recurring tasks whose owner is
   the agent (each one created with it as owner); an agent without
   configuration owns no recurring and no project task. *)
OwnRecurring(a) ==
    {t \in DOMAIN tasks : tasks[t].type = "recurring" /\ tasks[t].owner = a}

C32_RecurringIdsExact ==
    /\ \A a \in DOMAIN agents :
           LET ids == agents[a].recurringTaskIds
           IN  /\ \A i, j \in DOMAIN ids : ids[i] = ids[j] => i = j
               /\ Range(ids) = OwnRecurring(a)
    /\ \A t \in DOMAIN tasks :
           tasks[t].type \in {"project", "recurring"} => tasks[t].owner \in DOMAIN agents

(* An agent with two recurring tasks, the first of them completed, some
   time after it was given a default mode or checked in. *)
C32_Witness ==
    \E a \in DOMAIN agents :
        /\ Len(agents[a].recurringTaskIds) = 2
        /\ tasks[agents[a].recurringTaskIds[1]].status # "active"


(* C33: the safe parse variant agrees with the strict one.  On every text
   parseDurationSafe returns without throwing: the value parseDuration
   returns on that text, or undefined when parseDuration throws on it. *)
C33_SafeAgreesWithStrict ==
    Asked("parseDurationSafe") =>
        /\ ~reply.threw
        /\ LET strict == parseDurationResult(reply.text)
           IN  IF strict.threw
               THEN reply.value = Undefined
               ELSE reply.value = strict.value

(* The safe variant has returned undefined for 1h30m, on which the strict
   one throws. *)
C33_Witness ==
    /\ Asked("parseDurationSafe")
    /\ reply.text = <<"1", "h", "3", "0", "m">>
    /\ reply.value = Undefined
    /\ parseDurationResult(reply.text).threw


(* C34: an agent that holds a pending wake has lastWake equal to the pending
   wake's wakeTime.  Hence a pass that gets past the cooldown for an agent
   with a pending wake finds the grace period expired: it either counts the
   wake as answered or makes the visible call, and never leaves the wake
   pending as still within grace. *)
C34_PendingStampedWithLastWake ==
    \A a \in Agents :
        /\ PendingAfter(a) =>
               LastWakeOf(wakeState, a) = wakeState.pendingWakes[a].wakeTime
        /\ (/\ Evaluated(a)
            /\ PendingBefore(a)
            /\ ~CooldownActive(Now, LastWakeOf(tick.pre, a)))
           => /\ GraceExpired(Now, tick.pre.pendingWakes[a])
              /\ \/ Responded(latestTaskUpdate(PassList[a]), tick.pre.pendingWakes[a])
                 \/ tick.calls[a].visible # "none"

(* The first pass past the cooldown of a silent wake: the wake is 300,000 ms
   old, nothing was updated, and the visible call is made. *)
C34_Witness ==
    \E a \in Agents :
        /\ Evaluated(a)
        /\ PendingBefore(a)
        /\ Now - tick.pre.pendingWakes[a].wakeTime = MIN_WAKE_INTERVAL_MS
        /\ LastWakeOf(tick.pre, a) = tick.pre.pendingWakes[a].wakeTime
        /\ ~Responded(latestTaskUpdate(PassList[a]), tick.pre.pendingWakes[a])
        /\ tick.calls[a].visible # "none"


(* C35: configureAgent on an existing agent changes only its defaultMode,
   and only when a new one is passed: activeTaskId, recurringTaskIds,
   lastCheckIn and idleThreshold are as before, so that an agent with a
   default mode that getIdleAgents did not return before the call is not
   returned after it. *)
C35_ConfigureChangesModeOnly ==
    [][(reply'.op = "configureAgent" /\ ops' # ops /\ reply'.agentId \in DOMAIN agents) =>
           LET a == reply'.agentId
           IN  /\ agents'[a].defaultMode =
                      IF reply'.mode # NoMode THEN reply'.mode ELSE agents[a].defaultMode
               /\ agents'[a].activeTaskId = agents[a].activeTaskId
               /\ agents'[a].recurringTaskIds = agents[a].recurringTaskIds
               /\ agents'[a].lastCheckIn = agents[a].lastCheckIn
               /\ agents'[a].idleThreshold = agents[a].idleThreshold
               /\ (/\ agents[a].defaultMode # NoMode
                   /\ a \notin getIdleAgents(Now, DefaultIdleThreshold))
                  => a \notin getIdleAgents(Now, DefaultIdleThreshold)']_vars


(* C36: silent first.  When a pass sends an agent a visible notification
   without its silent call having failed in that pass, the last
   notification delivered to the agent before the pass was a silent wake,
   delivered at least ESCALATION_GRACE_MS earlier: it is the wake that was
   pending, and nothing was delivered to the agent in between. *)
C36_SilentFirst ==
    \A a \in Agents :
        (Ran /\ tick.calls[a].visible = "ok" /\ tick.calls[a].silent # "fail") =>
            /\ tick.told[a].via = [silent |-> "ok", visible |-> "none"]
            /\ Now - tick.told[a].last >= ESCALATION_GRACE_MS
            /\ PendingBefore(a)
            /\ tick.pre.pendingWakes[a].wakeTime = tick.told[a].last

(* An agent not reached in the first round is silently woken when the next
   pass runs and, nothing having been updated, visibly notified one wake
   interval later. *)
C36_Witness ==
    \E a \in Agents :
        /\ Ran
        /\ tick.calls[a] = [silent |-> "none", visible |-> "ok"]
        /\ tick.told[a].via.silent = "ok"
        /\ tick.told[a].prev = 0
        /\ tick.told[a].last = Timeline[6]
        /\ Now = TimeAt(7)


(* C37: terminal task states stay terminal.  No step takes a completed or
   abandoned task to the status active, and in every state a task has a
   completedAt exactly when its status is completed. *)
Terminal == {"completed", "abandoned"}

C37_TerminalStaysTerminal ==
    [][/\ \A t \in DOMAIN tasks :
              tasks[t].status \in Terminal => tasks'[t].status # "active"
       /\ \A t \in DOMAIN tasks' :
              tasks'[t].completedAt # 0 <=> tasks'[t].status = "completed"]_vars


(* C38: no lost update between Storage objects on one data file.  No write
   removes from the file a task, an agent configuration or a history entry
   that the file held before it: what was persisted through one object
   survives every later write through the other. *)
C38_NoLostUpdate ==
    [][\A p \in Paths :
          storage.files[p].kind = "ok" =>
              LET before == storage.files[p].content
                  after == storage'.files[p].content
              IN  /\ DOMAIN before.tasks \subseteq DOMAIN after.tasks
                  /\ DOMAIN before.agents \subseteq DOMAIN after.agents
                  /\ Len(before.history) <= Len(after.history)
                  /\ SubSeq(after.history, 1, Len(before.history)) = before.history]_vars


(* C39: a daemon pass on an existing data file is read-only with respect to
   the task store.  The file holds after the pass what it held before it,
   tasks, agent configurations (no check-in is recorded) and history, and
   the Storage objects of the other processes are as they were. *)
C39_TickReadsOnly ==
    [][(reply'.op = "runDaemon" /\ storage.files[reply'.path].kind # "missing") =>
           /\ storage'.files = storage.files
           /\ storage'.objects = storage.objects
           /\ storage'.default = storage.default
           /\ <<tasks, agents, history>>' = <<tasks, agents, history>>]_vars

(* A pass has run on a file that holds a task and an agent written through
   a Storage object that is still open on it. *)
C39_Witness ==
    /\ Asked("runDaemon")
    /\ reply.found = "ok"
    /\ "t2" \in DOMAIN storage.files[reply.path].content.tasks
    /\ "frank" \in DOMAIN storage.files[reply.path].content.agents
    /\ \E i \in DOMAIN storage.objects : storage.objects[i].path = reply.path

====
